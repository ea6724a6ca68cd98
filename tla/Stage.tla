-------------------------------- MODULE Stage --------------------------------
(***************************************************************************)
(* What the stage of a council promises to those who sit on it and listen, *)
(* without saying who locks what: a seat goes from empty to one person who *)
(* sits nowhere else and is not barred; whoever is barred is off stage and *)
(* silent at once, until readmitted; only a person on stage whom no        *)
(* moderator silenced opens a microphone; the host stays to the end, and   *)
(* after the end nobody is seated or heard.  Councils implements it.       *)
(***************************************************************************)
EXTENDS Naturals

CONSTANTS People, Host, Seats

VARIABLES
    holders,    \* who holds each seat
    open,       \* whose microphone is open
    silenced,   \* whom a moderator muted
    barred,     \* who is banned, or removed for a while
    over        \* the council has ended

svars == <<holders, open, silenced, barred, over>>

StageInit ==
    /\ holders = [s \in Seats |-> IF s = 0 THEN {Host} ELSE {}]
    /\ open = {Host}
    /\ silenced = {} /\ barred = {} /\ over = FALSE

Seated(m) == \E s \in Seats : m \in holders[s]
Rise(m) == holders' = [s \in Seats |-> holders[s] \ {m}]

Take(m, s) ==
    /\ ~over /\ m \notin barred /\ ~Seated(m) /\ holders[s] = {}
    /\ holders' = [holders EXCEPT ![s] = {m}]
    /\ silenced' = silenced \ {m}
    /\ UNCHANGED <<open, barred, over>>

\* A demotion also lifts a mute.
Leave(m) ==
    /\ m # Host /\ Seated(m)
    /\ Rise(m)
    /\ open' = open \ {m}
    /\ silenced' \in {silenced, silenced \ {m}}
    /\ UNCHANGED <<barred, over>>

Bar(m) ==
    /\ ~over /\ m # Host
    /\ Rise(m)
    /\ open' = open \ {m}
    /\ silenced' = silenced \ {m}
    /\ barred' = barred \cup {m}
    /\ UNCHANGED over

Readmit(m) ==
    /\ m \in barred
    /\ barred' = barred \ {m}
    /\ UNCHANGED <<holders, open, silenced, over>>

Silence(m) ==
    /\ ~over /\ m # Host
    /\ silenced' = silenced \cup {m}
    /\ open' = open \ {m}
    /\ UNCHANGED <<holders, barred, over>>

Unsilence(m) ==
    /\ ~over
    /\ silenced' = silenced \ {m}
    /\ UNCHANGED <<holders, open, barred, over>>

Open(m) ==
    /\ Seated(m) /\ m \notin silenced
    /\ open' = open \cup {m}
    /\ UNCHANGED <<holders, silenced, barred, over>>

Close(m) ==
    /\ open' = open \ {m}
    /\ UNCHANGED <<holders, silenced, barred, over>>

Finish ==
    /\ ~over /\ over' = TRUE
    /\ holders' = [s \in Seats |-> {}]
    /\ open' = {}
    /\ UNCHANGED <<silenced, barred>>

StageNext ==
    \/ \E m \in People : \/ \E s \in Seats : Take(m, s)
                         \/ Leave(m) \/ Bar(m) \/ Readmit(m)
                         \/ Silence(m) \/ Unsilence(m) \/ Open(m) \/ Close(m)
    \/ Finish

StageSpec == StageInit /\ [][StageNext]_svars
=============================================================================
