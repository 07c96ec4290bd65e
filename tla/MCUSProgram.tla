----------------------------- MODULE MCUSProgram -----------------------------
(***************************************************************************)
(* Two instances of the programme, and the replay its evidence comes from.  *)
(* They share no step: Init chooses one, and only that moves.               *)
(*                                                                         *)
(* programme: the lifecycle gate alone over six releases: `base` qualifies, *)
(*            `next` and `later` roll it forward, `fork` rewrites its       *)
(*            second month, `foreign` is stored in another catalog, and     *)
(*            `blocked` fails its data gates.                               *)
(* ledgers:   with the runtime database and its processes, over the three   *)
(*            releases that roll forward and one evidence hash: the         *)
(*            programme can be two admissions ahead of the runtime.         *)
(* replay:    the historical replay of three securities over five sessions, *)
(*            three of them month-ends: the universe changes before the      *)
(*            second, and every kind of action meets positions.             *)
(***************************************************************************)
EXTENDS PaperReleaseLedgers, USReplay

CONSTANTS base, next, later, fork, foreign, blocked, h1

VARIABLE which \* the instance that moves

MCReleases == {base, next, later, fork, foreign, blocked}
Rolling == {base, next, later}

MCReady == [r \in MCReleases |-> r # blocked]

MCCatalog == [r \in MCReleases |-> IF r = foreign THEN "other" ELSE "pit"]

MCHistory ==
    [r \in MCReleases |->
        CASE r \in {base, blocked}  -> <<"jan">>
          [] r = next               -> <<"jan", "feb">>
          [] r \in {later, foreign} -> <<"jan", "feb", "mar">>
          [] r = fork               -> <<"jan", "feb_rewritten", "mar">>]

MCMembers == [day \in 0..LastSession |-> IF day <= 2 THEN {1, 2} ELSE {2, 3}]

\* A day's actions in the order of their securities.
MCActions ==
    [day \in 1..LastSession |->
        CASE day = 3 -> <<[day |-> 3, issue |-> 1, kind |-> "spinoff", into |-> 3]>>
          [] day = 4 -> <<[day |-> 4, issue |-> 2, kind |-> "merger", into |-> 1],
                          [day |-> 4, issue |-> 3, kind |-> "split", into |-> 2]>>
          [] day = 5 -> <<[day |-> 5, issue |-> 2, kind |-> "settlement", into |-> 2],
                          [day |-> 5, issue |-> 3, kind |-> "split", into |-> 1]>>
          [] OTHER -> <<>>]

programVars == <<which, allVars, replayVars>>

Moves(instance) ==
    /\ which = instance
    /\ UNCHANGED which
    /\ IF instance = "replay" THEN UNCHANGED allVars ELSE UNCHANGED replayVars

\* What a step of the smaller instance may bring in.
InRolling ==
    /\ row'.release \in Rolling \cup {None}
    /\ \A a \in Admitters : pending'[a] # None => pending'[a].release \in Rolling
    /\ \A i \in DOMAIN events' : events'[i].hash \in Hashes => events'[i].hash = h1

MCInit == which \in {"programme", "ledgers", "replay"} /\ LedgersInit /\ ReplayInit

MCNext ==
    \/ Moves("programme") /\ Next /\ UNCHANGED ledgerVars
    \/ Moves("ledgers") /\ LedgersNext /\ InRolling
    \/ Moves("replay") /\ ReplayNext

\* The fairness of PaperReleaseLedgers, on its own steps.
MCFairness ==
    \A a \in Admitters :
        /\ WF_programVars(Moves("ledgers") /\ EndVerification(a))
        /\ SF_programVars(Moves("ledgers") /\ RetryAdmission(a))
        /\ SF_programVars(Moves("ledgers") /\ MirrorAdmission(a))

MCSpec == MCInit /\ [][MCNext]_programVars /\ MCFairness

=============================================================================
