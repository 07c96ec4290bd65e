----------------------------- MODULE V9RepoShadow -----------------------------
(***************************************************************************)
(* The forward-only observer of the V9 strategy and the overnight repo: an  *)
(* append-only chain of session captures.  A command starts a disposable    *)
(* process, gives it so long and kills it; the process collects the day's   *)
(* data under the machine-wide channel lock, lets go of it, reads the chain *)
(* and appends the session's capture, which continues the one before it.    *)
(*                                                                         *)
(* Sessions are consecutive numbers, 0 the frozen boundary.  Of a capture   *)
(* are kept the session it continues, whether repo was lent that day, and   *)
(* the loans settled so far; the virtual positions, prices and amounts are  *)
(* left out, so whether a loan pays is free.  A command that is turned away *)
(* at once changes nothing and is no step.                                 *)
(***************************************************************************)
EXTENDS Integers, Sequences, SequencesExt

CONSTANTS
    Commands,     \* v9-repo-shadow command lines
    LastSession,  \* bound on the sessions explored
    Nobody

VARIABLES
    today,    \* the latest session of the index
    captures, \* v9_repo_shadow_events
    channel,  \* who holds tq_channel.lock
    command   \* the command lines and their processes

shadowBookVars == <<today, captures, channel, command>>

Idle == [pc |-> "idle", before |-> 0, asof |-> 0, read |-> 0,
         inserted |-> FALSE, verdict |-> "none"]

ObserverInit ==
    /\ today = 0
    /\ captures = <<>>
    /\ channel = Nobody
    /\ command = [p \in Commands |-> Idle]

Doing(p, pc) == command[p].pc = pc

LatestSession == IF captures = <<>> THEN 0 ELSE Last(captures).session

\* Mutant: a session after a gap is taken.
TurnsAwayPast(session) ==
    \/ session <= 0
    \/ captures # <<>> /\ session <= LatestSession

\* Only a session after the boundary, and only the next one after the latest capture.
TurnsAway(session) ==
    \/ session <= 0
    \/ captures # <<>> /\ session # LatestSession + 1

-------------------------------------------------------------------------------
\* The first capture of all is assumed to end within its session: the check for a gap
\* needs a capture to compare with, so two commands on either side of a new session
\* could store the chain's first two captures in the wrong order.
NextSession ==
    /\ today < LastSession
    /\ captures = <<>> => \A p \in Commands : Doing(p, "idle")
    /\ today' = today + 1
    /\ UNCHANGED <<captures, channel, command>>

\* The command sees a free channel, counts the captures and starts the process.
Launch(p) ==
    /\ Doing(p, "idle")
    /\ channel = Nobody
    /\ command' = [command EXCEPT ![p] =
           [Idle EXCEPT !.pc = "starting", !.before = Len(captures)]]
    /\ UNCHANGED <<today, captures, channel>>

\* The process waits for the channel, reads the index and checks the session.
Connect(p) ==
    /\ Doing(p, "starting")
    /\ channel = Nobody
    /\ IF TurnsAway(today)
       THEN /\ command' = [command EXCEPT ![p].pc = "answering", ![p].asof = today]
            /\ UNCHANGED channel
       ELSE /\ command' = [command EXCEPT ![p].pc = "collecting", ![p].asof = today]
            /\ channel' = p
    /\ UNCHANGED <<today, captures>>

\* The data are in, or are not good enough; either way the channel is free again.
Collect(p) ==
    /\ Doing(p, "collecting")
    /\ channel' = Nobody
    /\ \E next \in {"checking", "answering"} :
           command' = [command EXCEPT ![p].pc = next]
    /\ UNCHANGED <<today, captures>>

CheckAgain(p) ==
    /\ Doing(p, "checking")
    /\ command' = [command EXCEPT ![p].pc =
           IF TurnsAway(command[p].asof) THEN "answering" ELSE "reading"]
    /\ UNCHANGED <<today, captures, channel>>

\* The chain is read a second time.  With two captures or more a loan is due, and its
\* days must be positive.
ReadChain(p) ==
    /\ Doing(p, "reading")
    /\ command' = [command EXCEPT
           ![p].pc = IF Len(captures) >= 2 /\ command[p].asof <= LatestSession
                     THEN "answering" ELSE "computing",
           ![p].read = Len(captures)]
    /\ UNCHANGED <<today, captures, channel>>

\* Mutant: settled from the capture before, whose loan has not come back yet.
SettledEarly(chain) ==
    IF chain = <<>> THEN <<>>
    ELSE Last(chain).settled \o (IF Last(chain).lent THEN <<Last(chain).session>> ELSE <<>>)

\* The loan made two captures ago is settled now, if it was made.
Settled(chain) ==
    IF chain = <<>> THEN <<>>
    ELSE Last(chain).settled \o
         (IF Len(chain) >= 2 /\ chain[Len(chain) - 1].lent
          THEN <<chain[Len(chain) - 1].session>> ELSE <<>>)

\* A session is stored once; the second capture of one is ignored.
Append1(chain, capture) ==
    IF \E i \in DOMAIN chain : chain[i].session = capture.session
    THEN chain ELSE Append(chain, capture)

AppendCapture(p) ==
    LET chain == SubSeq(captures, 1, command[p].read)
    IN  /\ Doing(p, "computing")
        /\ \E lent \in BOOLEAN :
               captures' = Append1(captures,
                   [session |-> command[p].asof,
                    follows |-> IF chain = <<>> THEN 0 ELSE Last(chain).session,
                    settled |-> Settled(chain), lent |-> lent])
        /\ command' = [command EXCEPT ![p].pc = "answering",
                                      ![p].inserted = captures' # captures]
        /\ UNCHANGED <<today, channel>>

\* The scan raises, or no liquid repo quote of the session is there.
Fail(p) ==
    /\ Doing(p, "computing")
    /\ command' = [command EXCEPT ![p].pc = "answering"]
    /\ UNCHANGED <<today, captures, channel>>

Answer(p) ==
    /\ Doing(p, "answering")
    /\ command' = [command EXCEPT ![p] = Idle]
    /\ UNCHANGED <<today, captures, channel>>

\* Mutant: the store is not asked before the timeout is reported.
TimeOutUnasking(p) ==
    /\ ~Doing(p, "idle")
    /\ channel' = IF channel = p THEN Nobody ELSE channel
    /\ command' = [command EXCEPT ![p] =
           [Idle EXCEPT !.verdict = "TIMEOUT", !.inserted = command[p].inserted]]
    /\ UNCHANGED <<today, captures>>

\* No answer in time: the process is terminated, and the count tells whether it had
\* got as far as its commit.
TimeOut(p) ==
    /\ ~Doing(p, "idle")
    /\ channel' = IF channel = p THEN Nobody ELSE channel
    /\ command' = [command EXCEPT ![p] =
           IF Len(captures) > command[p].before THEN Idle
           ELSE [Idle EXCEPT !.verdict = "TIMEOUT", !.inserted = command[p].inserted]]
    /\ UNCHANGED <<today, captures>>

CommandNext(p) ==
    \/ Launch(p) \/ Connect(p) \/ Collect(p) \/ CheckAgain(p) \/ ReadChain(p)
    \/ AppendCapture(p) \/ Fail(p) \/ Answer(p) \/ TimeOut(p)

ObserverNext == NextSession \/ \E p \in Commands : CommandNext(p)

ObserverSpec == ObserverInit /\ [][ObserverNext]_shadowBookVars

-------------------------------------------------------------------------------
\* The chain has no gap and no fork: whatever commands overlap and die, every capture
\* is of the session after the one before it, and was computed from that one.  For the
\* first two captures this rests on the environment and not on the code: the preflight
\* finds no gap while there are no events (592-594), and NextSession lets no session begin
\* until a command that could store the chain's first capture is over.
CapturesFormAChain ==
    \A i \in 2..Len(captures) :
        /\ captures[i].session = captures[i - 1].session + 1
        /\ captures[i].follows = captures[i - 1].session

\* Every loan that was made is settled by the second capture after it, once and in
\* order, whoever captures and dies in between: no session's interest counts twice.
EveryLoanSettlesOnce ==
    \A i \in DOMAIN captures :
        /\ ToSet(captures[i].settled) = {captures[j].session : j \in {j \in 1..(i - 2) : captures[j].lent}}
        /\ \A m, n \in DOMAIN captures[i].settled :
               m < n => captures[i].settled[m] < captures[i].settled[n]

\* A command that reports that nothing was stored in time is right about its own
\* process, although it was killed at any point before, at or after its commit.
StoredIsNotReportedLost ==
    \A p \in Commands : command[p].verdict = "TIMEOUT" => ~command[p].inserted
===============================================================================
