------------------------------ MODULE Councils ------------------------------
(***************************************************************************)
(* The stage of one live council: councils.service.ts, council-policy.ts.  *)
(*                                                                         *)
(* A member's row says what he may do and, if he is on stage, which seat   *)
(* he has.  Whoever moves him takes a lock on the Council row, reads, and  *)
(* writes what follows from what was read.  Three things take no lock: the *)
(* microphone, the withdrawal of a speak request, and the sweep that frees *)
(* the seats of speakers whose connection is gone.                         *)
(***************************************************************************)
EXTENDS Integers, FiniteSets

CONSTANTS
    Users,          \* members and visitors, the owner aside
    Owner,
    Workers,        \* requests served at the same time (bound)
    Sweepers,       \* sweeps that run at the same time (bound)
    MaxSpeakers,    \* COUNCIL_MAX_SPEAKERS, the owner's seat included (12)
    ModeratorMay    \* what the owner lets moderators do

ASSUME PeopleAssumption == Owner \notin Users /\ IsFiniteSet(Users)
ASSUME SeatsAssumption == MaxSpeakers \in Nat \ {0}
ASSUME PowersAssumption == ModeratorMay \subseteq {"requests", "mute", "remove", "ban"}

VARIABLES
    status,     \* Council.status
    member,     \* CouncilMember rows
    pending,    \* how many PENDING CouncilSpeakRequest rows a user has
    task,       \* what each request holding the lock is about to write
    seen,       \* the role each sweep read of the seats it may still free
    overtaken   \* history: swept while a request held the lock to act on them

vars == <<status, member, pending, task, seen, overtaken>>

Members == Users \cup {Owner}
Seats == 0..(MaxSpeakers - 1)
Null == -1

Roles == {"OWNER", "MODERATOR", "SPEAKER", "LISTENER", "BANNED"}
\* A row, or the visitor who has none ("NONE").  micMuted; muted is
\* mutedByModerator; kicked: kickedUntil lies ahead.
Member == [role : Roles \cup {"NONE"}, seat : Seats \cup {Null}, micMuted : BOOLEAN,
           muted : BOOLEAN, kicked : BOOLEAN]
Visitor == [role |-> "NONE", seat |-> Null, micMuted |-> TRUE, muted |-> FALSE,
            kicked |-> FALSE]
Host == [Visitor EXCEPT !.role = "OWNER", !.seat = 0, !.micMuted = FALSE]

Acts == {"request", "accept", "reject", "promote", "demote", "mute", "unmute",
         "kick", "ban", "unban", "make_moderator", "remove_moderator",
         "leave", "leaveStage", "end"}
\* act will be done to of, whose row was read as row; seat was free.
Task == [act : Acts \cup {"idle"}, of : Members, row : Member,
         seat : Seats \cup {Null}]
Idle == [act |-> "idle", of |-> Owner, row |-> Visitor, seat |-> Null]

Unread == "unread"

Init ==
    /\ status = "LIVE"
    /\ member = [m \in Members |-> IF m = Owner THEN Host ELSE Visitor]
    /\ pending = [u \in Users |-> 0]
    /\ task = [w \in Workers |-> Idle]
    /\ seen = [w \in Sweepers |-> [u \in Users |-> Unread]]
    /\ overtaken = {}

-----------------------------------------------------------------------------
(* council-policy.ts.                                                      *)

\* councilPermissions: of the owner, or of a moderator the owner lets.
May(by, power) ==
    by = Owner \/ (member[by].role = "MODERATOR" /\ power \in ModeratorMay)

canActOn(by, u) ==
    /\ u # by /\ member[u].role # "OWNER"
    /\ by = Owner \/ (member[by].role = "MODERATOR" /\ member[u].role # "MODERATOR")

OnStage == {m \in Members : member[m].seat # Null}
Taken == {member[m].seat : m \in OnStage}
\* The lowest free seat, or null.  (Mutant: <= for <.)
MutantFreeSeat ==
    IF \A s \in 0..MaxSpeakers : s \in Taken THEN Null
    ELSE CHOOSE s \in 0..MaxSpeakers : s \notin Taken /\ \A r \in 0..(s - 1) : r \in Taken
firstFreeSeat ==
    IF Seats \subseteq Taken THEN Null
    ELSE CHOOSE s \in Seats : s \notin Taken /\ \A r \in 0..(s - 1) : r \in Taken

\* (Mutant: a speaker who leaves the stage stays one.)
MutantOffStage(role) == role
roleOffStage(role) == IF role = "SPEAKER" THEN "LISTENER" ELSE role
roleOnStage(role) == IF role = "LISTENER" THEN "SPEAKER" ELSE role

\* assertActiveMember.
Active(row) == row.role \notin {"NONE", "BANNED"} /\ ~row.kicked

-----------------------------------------------------------------------------
(* withCouncilLock: what a request reads.                                  *)

\* (Mutant: the row is read without FOR UPDATE.)
MutantLocked == FALSE
Locked == \E w \in Workers : task[w].act # "idle"

Seating == {"accept", "promote"}

\* What each request checks before it writes, by is who sent it.
requestToSpeak(by, u) ==
    /\ by = u /\ Active(member[u]) /\ member[u].seat = Null
    /\ pending[u] = 0 /\ Cardinality(OnStage) < MaxSpeakers
decideRequest(by, u, accept) ==
    /\ May(by, "requests") /\ pending[u] > 0
    /\ accept /\ Active(member[u]) /\ member[u].seat = Null => firstFreeSeat # Null
memberAction(by, u, act) ==
    /\ member[u].role # "NONE" /\ canActOn(by, u)
    /\ \/ /\ act = "promote" /\ May(by, "requests") /\ Active(member[u])
          /\ member[u].seat = Null => firstFreeSeat # Null
       \/ act = "demote" /\ May(by, "remove") /\ member[u].seat # Null
       \/ act \in {"mute", "unmute"} /\ May(by, "mute") /\ member[u].seat # Null
       \/ act = "kick" /\ May(by, "remove") /\ member[u].role # "BANNED"
       \/ act = "ban" /\ May(by, "ban")
       \/ act = "unban" /\ May(by, "ban") /\ member[u].role = "BANNED"
       \/ act = "make_moderator" /\ by = Owner /\ member[u].role # "BANNED"
       \/ act = "remove_moderator" /\ by = Owner /\ member[u].role = "MODERATOR"
leaveStage(by, u) == by = u /\ Active(member[u]) /\ member[u].seat # Null
leave(by, u) == by = u /\ member[u].role # "NONE"

Admits(by, u, act) ==
    \/ act = "request" /\ requestToSpeak(by, u)
    \/ act = "accept" /\ decideRequest(by, u, TRUE)
    \/ act = "reject" /\ decideRequest(by, u, FALSE)
    \/ memberAction(by, u, act)
    \/ act = "leaveStage" /\ leaveStage(by, u)
    \/ act = "leave" /\ leave(by, u)

Lock(w, by, u, act) ==
    /\ ~Locked /\ status = "LIVE" /\ Admits(by, u, act)
    /\ task' = [task EXCEPT ![w] = [act |-> act, of |-> u, row |-> member[u],
                                    seat |-> firstFreeSeat]]
    /\ UNCHANGED <<status, member, pending, seen, overtaken>>

\* endCouncil: the owner, an administrator, or the owner's long absence.
LockToEnd(w) ==
    /\ ~Locked /\ status = "LIVE"
    /\ task' = [task EXCEPT ![w] = [Idle EXCEPT !.act = "end"]]
    /\ UNCHANGED <<status, member, pending, seen, overtaken>>

-----------------------------------------------------------------------------
(* withCouncilLock: what it writes.                                        *)

\* A write sets updatedAt, which a sweep compares with what it read.  (Mutant:
\* the sweep frees the seat of a row whatever became of it.)
MutantTouched(us) == seen
Touched(us) ==
    [w \in Sweepers |-> [u \in Users |-> IF u \in us THEN Unread ELSE seen[w][u]]]

OffStage(row, role) ==
    [row EXCEPT !.seat = Null, !.role = roleOffStage(role), !.micMuted = TRUE]

\* takeSeat; a member who has a seat keeps it.
TakesSeat(t) == t.act \in Seating /\ t.row.seat = Null /\ Active(t.row)

\* (Mutant: a moderator who has a seat becomes a listener like the others.)
MutantPlainRole(t) == "LISTENER"
PlainRole(t) == IF t.row.seat # Null THEN "SPEAKER" ELSE "LISTENER"

Written(t) ==
    LET now == member[t.of] IN
    CASE TakesSeat(t) ->
           [now EXCEPT !.seat = t.seat, !.role = roleOnStage(t.row.role),
                       !.micMuted = TRUE, !.muted = FALSE]
      [] t.act = "demote" -> [OffStage(now, t.row.role) EXCEPT !.muted = FALSE]
      [] t.act = "mute" -> [now EXCEPT !.micMuted = TRUE, !.muted = TRUE]
      [] t.act = "unmute" -> [now EXCEPT !.muted = FALSE]
      [] t.act = "kick" -> [Visitor EXCEPT !.role = "LISTENER", !.kicked = TRUE]
      [] t.act = "ban" -> [Visitor EXCEPT !.role = "BANNED"]
      [] t.act = "unban" -> [now EXCEPT !.role = "LISTENER"]
      [] t.act = "make_moderator" -> [now EXCEPT !.role = "MODERATOR"]
      [] t.act = "remove_moderator" -> [now EXCEPT !.role = PlainRole(t)]
      [] t.act \in {"leave", "leaveStage"} /\ t.row.seat # Null ->
           OffStage(now, t.row.role)
      [] OTHER -> now

\* What becomes of the requests.  (Mutant: a ban leaves them.)
MutantCancels(t) == t.act \in {"kick", "leave"} \/ TakesSeat(t)
Cancels(t) == t.act \in {"kick", "ban", "leave"} \/ TakesSeat(t)
Requests(t) ==
    LET n == pending[t.of] IN
    CASE t.act = "request" -> n + 1
      [] Cancels(t) -> 0
      [] ~Cancels(t) /\ t.act \in {"accept", "reject"} -> IF n = 0 THEN 0 ELSE n - 1
      [] OTHER -> n

\* Two rows never have one seat: the unique index makes the request fail.
Fits(t) == TakesSeat(t) => t.seat \notin Taken

Commit(w) ==
    LET t == task[w] IN
    /\ t.act \notin {"idle", "end"} /\ Fits(t)
    /\ member' = [member EXCEPT ![t.of] = Written(t)]
    /\ pending' = [pending EXCEPT ![t.of] = Requests(t)]
    /\ seen' = IF member' = member THEN seen ELSE Touched({t.of})
    /\ task' = [task EXCEPT ![w] = Idle]
    /\ UNCHANGED <<status, overtaken>>

endCouncil(w) ==
    /\ task[w].act = "end"
    /\ status' = "ENDED"
    /\ member' = [m \in Members |->
                    IF m \in OnStage
                    THEN [member[m] EXCEPT !.seat = Null, !.micMuted = TRUE]
                    ELSE member[m]]
    /\ pending' = [u \in Users |-> 0]
    /\ seen' = Touched(OnStage)
    /\ task' = [task EXCEPT ![w] = Idle]
    /\ UNCHANGED overtaken

\* The transaction times out, the index refuses it, or the process dies.
Rollback(w) ==
    /\ task[w].act # "idle"
    /\ task' = [task EXCEPT ![w] = Idle]
    /\ UNCHANGED <<status, member, pending, seen, overtaken>>

-----------------------------------------------------------------------------
(* What takes no lock.                                                     *)

\* The check that the council is live is older than the row it creates.
join(u) ==
    /\ member[u].role = "NONE"
    /\ member' = [member EXCEPT ![u].role = "LISTENER"]
    /\ UNCHANGED <<status, pending, task, seen, overtaken>>

\* One conditional update.  (Mutant: the mute is checked only before it.)
MutantOpens(m) == member[m].seat # Null
Opens(m) == member[m].seat # Null /\ ~member[m].muted
setMic(m, off) ==
    /\ IF off THEN member[m].seat # Null ELSE Opens(m)
    /\ member' = [member EXCEPT ![m].micMuted = off]
    /\ seen' = Touched({m})
    /\ UNCHANGED <<status, pending, task, overtaken>>

cancelRequest(u) ==
    /\ pending[u] > 0
    /\ pending' = [pending EXCEPT ![u] = 0]
    /\ UNCHANGED <<status, member, task, seen, overtaken>>

\* COUNCIL_KICK_MINUTES are over.
KickEnds(u) ==
    /\ member[u].kicked
    /\ member' = [member EXCEPT ![u].kicked = FALSE]
    /\ UNCHANGED <<status, pending, task, seen, overtaken>>

\* sweepStaleSpeakers reads who is seated, unchanged for two minutes and, says
\* Redis, absent.
sweepReads(w) ==
    /\ seen[w] = [u \in Users |-> Unread]
    /\ \E us \in SUBSET (OnStage \ {Owner}) :
         /\ us # {}
         /\ seen' = [seen EXCEPT ![w] =
                       [u \in Users |-> IF u \in us THEN member[u].role ELSE Unread]]
    /\ UNCHANGED <<status, member, pending, task, overtaken>>

\* One conditional update per row it read.
sweepFrees(w, u) ==
    /\ seen[w][u] # Unread
    /\ member[u].seat # Null
    /\ member' = [member EXCEPT ![u] = OffStage(@, seen[w][u])]
    /\ seen' = [Touched({u}) EXCEPT ![w][u] = Unread]
    /\ overtaken' = IF \E v \in Workers : task[v].act # "idle" /\ task[v].of = u
                    THEN overtaken \cup {u} ELSE overtaken
    /\ UNCHANGED <<status, pending, task>>

\* The process of the sweep dies.
sweepStops(w) ==
    /\ seen[w] # [u \in Users |-> Unread]
    /\ seen' = [seen EXCEPT ![w] = [u \in Users |-> Unread]]
    /\ UNCHANGED <<status, member, pending, task, overtaken>>

Next ==
    \/ \E w \in Workers : \/ \E by \in Members, u \in Users, act \in Acts : Lock(w, by, u, act)
                          \/ LockToEnd(w) \/ Commit(w) \/ endCouncil(w) \/ Rollback(w)
    \/ \E u \in Users : join(u) \/ cancelRequest(u) \/ KickEnds(u)
    \/ \E m \in Members, off \in BOOLEAN : setMic(m, off)
    \/ \E w \in Sweepers : \/ sweepReads(w) \/ sweepStops(w)
                           \/ \E u \in Users : sweepFrees(w, u)

Spec == Init /\ [][Next]_vars

-----------------------------------------------------------------------------
(* Properties.                                                             *)

\* Rows, requests and handlers have their types; a seat is one of the stage's.
TypeOK ==
    /\ status \in {"LIVE", "ENDED"}
    /\ member \in [Members -> Member]
    /\ pending \in [Users -> 0..2]
    /\ task \in [Workers -> Task]
    /\ seen \in [Sweepers -> [Users -> Roles \cup {"NONE", Unread}]]
    /\ overtaken \subseteq Users

\* docs/councils.md: "up to 12 speakers".  Between the moment a request picked
\* a seat and the moment it writes it nobody else takes that seat: the unique
\* index behind takeSeat never has to refuse.
SeatIsFree ==
    \A w \in Workers : TakesSeat(task[w]) =>
        task[w].seat \in Seats /\ task[w].seat \notin Taken

\* Who is on stage may speak, whatever raced: no banned, removed or plain
\* listener has a seat, no seat has two people, none is left when it is over.
StageIsConsistent ==
    /\ \A m \in OnStage : /\ member[m].role \in {"OWNER", "MODERATOR", "SPEAKER"}
                          /\ ~member[m].kicked
                          /\ \A n \in OnStage : member[m].seat = member[n].seat => m = n
    /\ status = "ENDED" => OnStage = {}

\* A request that waits can be granted: one per user, of a member who is off
\* stage, neither banned nor removed, in a council that is live.
PendingIsServable ==
    \A u \in Users : pending[u] > 0 =>
        /\ pending[u] = 1 /\ status = "LIVE"
        /\ Active(member[u]) /\ member[u].seat = Null

\* setMic takes no lock: still nobody off stage, and nobody a moderator
\* muted, has an open microphone.
MutedIsSilent ==
    \A m \in Members : member[m].seat = Null \/ member[m].muted => member[m].micMuted

\* A role that was read long ago is never written back: nobody becomes
\* moderator but by make_moderator, and a ban ends by unban alone.
RolesAreGiven ==
    [][\A u \in Users :
        LET done(act) == \E w \in Workers : task[w].act = act /\ task[w].of = u IN
        /\ member[u].role # "MODERATOR" /\ member'[u].role = "MODERATOR"
             => done("make_moderator")
        /\ member[u].role = "BANNED" /\ member'[u].role # "BANNED" => done("unban")]_vars

\* roleOffStage: "speakers become listeners".  Only the end of the council and
\* the sweep, because it takes no lock, can leave a speaker without a seat.
SpeakersAreSeated ==
    status = "LIVE" =>
        \A u \in Users \ overtaken : member[u].role = "SPEAKER" => member[u].seat # Null

-----------------------------------------------------------------------------
(* The stage this implements.                                              *)

OnStageAt(s) == {m \in Members : member[m].seat = s}
Barred == {m \in Members : member[m].role = "BANNED" \/ member[m].kicked}

Stage == INSTANCE Stage WITH
    People <- Members, Host <- Owner,
    holders <- [s \in Seats |-> OnStageAt(s)],
    open <- {m \in Members : ~member[m].micMuted},
    silenced <- {m \in Members : member[m].muted},
    barred <- Barred,
    over <- status = "ENDED"

\* Whatever interleaves, requests under withCouncilLock with setMic and
\* sweepStaleSpeakers without it, every write is one step of the stage: nobody is
\* seated over somebody else or while barred, no mute is lost, the host is not moved.
ImplementsStage == Stage!StageSpec
=============================================================================
