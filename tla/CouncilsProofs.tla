--------------------------- MODULE CouncilsProofs ---------------------------
(***************************************************************************)
(* Theorems about Councils, for any number of people, requests, sweeps and *)
(* seats.  The lock lets one request act at a time; what a sweep may do to *)
(* the row that the request read is to free its seat, and the request's    *)
(* write is sound for both.  A sweep that still may free a seat knows the  *)
(* role its row has now.  The last section shows that Councils implements  *)
(* Stage: what each kind of write makes of one member's row, and which     *)
(* step of the stage that is.                                              *)
(***************************************************************************)
EXTENDS Councils, TLAPS, NaturalsInduction, WellFoundedInduction

StageRoles == {"MODERATOR", "SPEAKER"}
Busy(w) == task[w].act # "idle"
OneAtATime == \A v, w \in Workers : Busy(v) /\ Busy(w) => v = w

\* The owner's row is his; nobody else's is.
OwnerIsOne ==
    /\ member[Owner].role = "OWNER" /\ ~member[Owner].kicked
    /\ \A u \in Users : member[u].role # "OWNER"

\* What became of the row that the request read: nothing, or it was swept.
Follows(row, now) ==
    /\ now.kicked => row.kicked
    /\ \/ now.seat = row.seat /\ now.role = row.role
       \/ row.seat # Null /\ now.seat = Null /\ now.role = roleOffStage(row.role)

\* What the request checked about it.
Admitted(act, row) ==
    /\ row.role \notin {"OWNER", "NONE"}
    /\ row.seat # Null => row.role \in StageRoles
    /\ act = "request" => Active(row) /\ row.seat = Null
    /\ act \in {"kick", "make_moderator"} => row.role # "BANNED"
    /\ act = "remove_moderator" => row.role = "MODERATOR"
    /\ act = "demote" => row.seat # Null
    /\ act = "unban" => row.role = "BANNED"

TaskIsSound(t) ==
    /\ t.act # "idle" => status = "LIVE"
    /\ t.act \notin {"idle", "end"} =>
         /\ t.of \in Users
         /\ Admitted(t.act, t.row)
         /\ Follows(t.row, member[t.of])
         /\ member[t.of].seat # t.row.seat => t.of \in overtaken
         /\ t.act = "request" => pending[t.of] = 0

SweepIsFresh ==
    \A w \in Sweepers, u \in Users :
        seen[w][u] # Unread => seen[w][u] = member[u].role /\ member[u].seat # Null

Inv ==
    /\ TypeOK /\ OwnerIsOne
    /\ StageIsConsistent /\ PendingIsServable /\ MutedIsSilent /\ SpeakersAreSeated
    /\ SeatIsFree /\ OneAtATime /\ SweepIsFresh
    /\ \A w \in Workers : TaskIsSound(task[w])

-----------------------------------------------------------------------------

LEMMA SeatsAreNumbers == Seats \subseteq Nat /\ Null \notin Seats
  BY SeatsAssumption DEF Seats, Null

\* firstFreeSeat returns a seat nobody has, or null.
LEMMA FreeSeat == firstFreeSeat = Null \/ firstFreeSeat \in Seats \ Taken
<1>1. SUFFICES ASSUME ~(Seats \subseteq Taken) PROVE firstFreeSeat \in Seats \ Taken
  BY DEF firstFreeSeat
<1>2. PICK s \in Seats \ Taken : \A r \in Seats \ Taken : <<r, s>> \notin OpToRel(<, Nat)
  <2>1. Seats \ Taken \subseteq Nat /\ Seats \ Taken # {}
    BY <1>1, SeatsAreNumbers
  <2> QED BY <2>1, WFMin, NatLessThanWellFounded, Zenon
<1>3. \A r \in 0..(s - 1) : r \in Taken
  <2>1. SUFFICES ASSUME NEW r \in 0..(s - 1), r \notin Taken PROVE FALSE
    OBVIOUS
  <2>2. r \in Seats \ Taken /\ r < s /\ r \in Nat /\ s \in Nat
    BY <2>1, SeatsAssumption DEF Seats
  <2> QED BY <1>2, <2>2 DEF OpToRel
<1>4. \E q \in Seats : q \notin Taken /\ \A r \in 0..(q - 1) : r \in Taken
  BY <1>3
<1>5. firstFreeSeat = CHOOSE q \in Seats : q \notin Taken /\ \A r \in 0..(q - 1) : r \in Taken
  BY <1>1 DEF firstFreeSeat
<1> QED BY <1>4, <1>5

LEMMA Records ==
    /\ Visitor \in Member /\ Host \in Member /\ Idle \in Task
    /\ \A t \in Task : t.act \in Acts \cup {"idle"} /\ t.of \in Members /\ t.row \in Member
                         /\ t.seat \in Seats \cup {Null}
    /\ \A r \in Member : /\ r.role \in Roles \cup {"NONE"} /\ r.seat \in Seats \cup {Null}
                           /\ r.micMuted \in BOOLEAN /\ r.muted \in BOOLEAN
                           /\ r.kicked \in BOOLEAN
<1>1. 0 \in Seats
  BY SeatsAssumption DEF Seats
<1>2. Visitor \in Member /\ Host \in Member
  BY <1>1 DEF Visitor, Host, Member, Roles
<1>3. Idle \in Task
  BY <1>2 DEF Idle, Task, Members
<1>4. \A t \in Task : /\ t.act \in Acts \cup {"idle"} /\ t.of \in Members /\ t.row \in Member
                     /\ t.seat \in Seats \cup {Null}
  BY DEF Task
<1>5. \A r \in Member : /\ r.role \in Roles \cup {"NONE"} /\ r.seat \in Seats \cup {Null}
                       /\ r.micMuted \in BOOLEAN /\ r.muted \in BOOLEAN
                       /\ r.kicked \in BOOLEAN
  BY DEF Member
<1> QED BY <1>2, <1>3, <1>4, <1>5

LEMMA InitInv == Init => Inv
<1> SUFFICES ASSUME Init PROVE Inv
  OBVIOUS
<1>1. TypeOK
  BY Records DEF Init, TypeOK, Unread
<1>2. /\ \A m \in Members : m # Owner => member[m] = Visitor
      /\ member[Owner] = Host /\ Owner \in Members /\ Users \subseteq Members
      /\ Owner \notin Users
  BY PeopleAssumption DEF Init, Members
<1>3. OwnerIsOne /\ MutedIsSilent /\ SpeakersAreSeated
  <2>1. /\ Host.role = "OWNER" /\ ~Host.kicked /\ Host.seat = 0 /\ ~Host.muted
        /\ Visitor.role = "NONE" /\ Visitor.micMuted
    BY DEF Host, Visitor
  <2>2. \A u \in Users : member[u] = Visitor
    BY <1>2
  <2>3. OwnerIsOne /\ SpeakersAreSeated
    BY <1>2, <2>1, <2>2 DEF OwnerIsOne, SpeakersAreSeated
  <2>4. MutedIsSilent
    BY <1>2, <2>1 DEF MutedIsSilent, Null
  <2> QED BY <2>3, <2>4
<1>4. StageIsConsistent
  BY <1>2 DEF StageIsConsistent, OnStage, Init, Host, Visitor
<1>5. PendingIsServable /\ SeatIsFree /\ OneAtATime /\ SweepIsFresh
  BY DEF Init, PendingIsServable, SeatIsFree, OneAtATime, SweepIsFresh, Busy, Idle, TakesSeat,
         Seating, Unread
<1>6. \A w \in Workers : TaskIsSound(task[w])
  BY DEF Init, TaskIsSound, Idle
<1> QED BY <1>1, <1>3, <1>4, <1>5, <1>6 DEF Inv

-----------------------------------------------------------------------------
(* One row changes.                                                        *)

\* What may become of the row of u, and of u's requests.
Becomes(u, n, p) ==
    /\ n \in Member
    /\ n.role = "OWNER" <=> u = Owner
    /\ u = Owner => ~n.kicked
    /\ n.seat # Null => /\ n.role \in StageRoles \cup {"OWNER"} /\ ~n.kicked
                        /\ status = "LIVE"
                        /\ n.seat = member[u].seat \/ n.seat \notin Taken
    /\ n.seat = Null \/ n.muted => n.micMuted
    /\ p \in 0..1
    /\ p > 0 => status = "LIVE" /\ Active(n) /\ n.seat = Null

LEMMA RowChanges ==
    ASSUME Inv, NEW u \in Members, NEW n, NEW p, Becomes(u, n, p),
           member' = [member EXCEPT ![u] = n], status' = status,
           pending' = [pending EXCEPT ![u] = p]
    PROVE  /\ member' \in [Members -> Member] /\ pending' \in [Users -> 0..2]
           /\ OwnerIsOne' /\ StageIsConsistent' /\ PendingIsServable' /\ MutedIsSilent'
<1> USE DEF Inv
<1>1. member' \in [Members -> Member] /\ pending' \in [Users -> 0..2]
  <2>1. member \in [Members -> Member] /\ pending \in [Users -> 0..2]
    BY DEF TypeOK
  <2>2. n \in Member /\ p \in 0..2
    BY DEF Becomes
  <2> QED BY <2>1, <2>2
<1>2. /\ member'[u] = n
      /\ \A m \in Members : m # u => member'[m] = member[m]
      /\ \A v \in Users : IF v = u THEN pending'[v] = p ELSE pending'[v] = pending[v]
      /\ Owner \in Members /\ Users \subseteq Members /\ Owner \notin Users
  BY PeopleAssumption DEF TypeOK, Members
<1>3. OwnerIsOne'
  BY <1>2 DEF OwnerIsOne, Becomes
<1>4. MutedIsSilent'
  BY <1>2 DEF MutedIsSilent, Becomes
<1>5. PendingIsServable'
  BY <1>2 DEF PendingIsServable, Becomes, Active, TypeOK
<1>6. StageIsConsistent'
  <2>1. \A m \in Members : m \in OnStage' <=> member'[m].seat # Null
    BY DEF OnStage
  <2>2. \A m \in Members : m \in OnStage <=> member[m].seat # Null
    BY DEF OnStage
  <2>3. \A m \in OnStage : member[m].seat \in Taken
    BY DEF Taken
  <2>4. ASSUME NEW m \in OnStage'
        PROVE  /\ member'[m].role \in {"OWNER", "MODERATOR", "SPEAKER"} /\ ~member'[m].kicked
               /\ status = "LIVE"
    <3>1. m \in Members /\ member'[m].seat # Null
      BY <2>4 DEF OnStage
    <3>2. CASE m = u
      BY <3>1, <3>2, <1>2 DEF Becomes, StageRoles
    <3>3. CASE m # u
      BY <3>1, <3>3, <1>2, <2>2 DEF StageIsConsistent, TypeOK
    <3> QED BY <3>2, <3>3
  <2>5. ASSUME NEW m \in OnStage', NEW k \in OnStage', member'[m].seat = member'[k].seat
        PROVE  m = k
    <3>1. m \in Members /\ k \in Members /\ member'[m].seat # Null /\ member'[k].seat # Null
      BY <2>5 DEF OnStage
    <3>2. \A x, y \in OnStage : member[x].seat = member[y].seat => x = y
      BY DEF StageIsConsistent
    <3>3. n.seat # Null => n.seat = member[u].seat \/ n.seat \notin Taken
      BY DEF Becomes
    <3> QED BY <2>5, <3>1, <3>2, <3>3, <1>2, <2>2, <2>3
  <2> QED BY <2>4, <2>5 DEF StageIsConsistent
<1> QED BY <1>1, <1>3, <1>4, <1>5, <1>6

\* What a request read stays sound if its row stays, or the row was swept.
LEMMA TaskKept ==
    ASSUME Inv, NEW w \in Workers, task'[w] = task[w], status' = status,
           task[w].act = "request" => pending'[task[w].of] \in {0, pending[task[w].of]},
           overtaken \subseteq overtaken',
           LET now == member[task[w].of]
               new == member'[task[w].of]
           IN  /\ new.kicked => now.kicked
               /\ \/ new.seat = now.seat /\ (now.role # "NONE" => new.role = now.role)
                  \/ /\ now.seat # Null /\ new.seat = Null /\ new.role = roleOffStage(now.role)
                     /\ task[w].act # "idle" => task[w].of \in overtaken'
    PROVE  TaskIsSound(task[w])'
<1> DEFINE t == task[w]
<1>1. TaskIsSound(t)
  BY DEF Inv
<1>2. (\A r : r = "LISTENER" => roleOffStage(r) = r) /\ \A r : roleOffStage(roleOffStage(r)) = roleOffStage(r)
  BY DEF roleOffStage
<1>3. t.row.role # "NONE" => roleOffStage(t.row.role) # "NONE"
  BY DEF roleOffStage
<1> SUFFICES ASSUME t.act \notin {"idle", "end"} PROVE TaskIsSound(t)'
  BY <1>1 DEF TaskIsSound
<1>4. Admitted(t.act, t.row) /\ Follows(t.row, member[t.of]) /\ t.of \in Users
  BY <1>1 DEF TaskIsSound
<1>5. member[t.of].role # "NONE"
  BY <1>3, <1>4 DEF Follows, Admitted
<1>6. Follows(t.row, member'[t.of])
  BY <1>2, <1>4, <1>5 DEF Follows
<1>7. member'[t.of].seat # t.row.seat => t.of \in overtaken'
  BY <1>1, <1>4 DEF TaskIsSound, Follows
<1> QED BY <1>1, <1>4, <1>6, <1>7 DEF TaskIsSound

LEMMA TouchedRows ==
    ASSUME Inv, NEW us
    PROVE  /\ Touched(us) \in [Sweepers -> [Users -> Roles \cup {"NONE", Unread}]]
           /\ \A w \in Sweepers, u \in Users : Touched(us)[w][u] # Unread =>
                /\ u \notin us /\ Touched(us)[w][u] = member[u].role /\ member[u].seat # Null
  BY DEF Inv, TypeOK, SweepIsFresh, Touched, Unread

-----------------------------------------------------------------------------
(* What takes no lock.                                                     *)

LEMMA LocklessStep ==
    ASSUME Inv, NEW u \in Members, NEW n, NEW p, Becomes(u, n, p),
           member' = [member EXCEPT ![u] = n], pending' = [pending EXCEPT ![u] = p],
           UNCHANGED <<status, task>>,
           seen' \in [Sweepers -> [Users -> Roles \cup {"NONE", Unread}]], SweepIsFresh',
           overtaken \subseteq overtaken', overtaken' \subseteq Users,
           u \in Users => p \in {0, pending[u]},
           n.kicked => member[u].kicked,
           \/ /\ n.seat = member[u].seat
              /\ member[u].role # "NONE" => n.role = member[u].role
              /\ n.role = "SPEAKER" => member[u].role = "SPEAKER"
           \/ /\ member[u].seat # Null /\ n.seat = Null /\ n.role = roleOffStage(member[u].role)
              /\ \A w \in Workers : Busy(w) /\ task[w].of = u => u \in overtaken'
    PROVE  Inv'
<1> USE DEF Inv
<1>1. /\ member' \in [Members -> Member] /\ pending' \in [Users -> 0..2]
      /\ OwnerIsOne' /\ StageIsConsistent' /\ PendingIsServable' /\ MutedIsSilent'
  BY RowChanges
<1>2. TypeOK'
  BY <1>1 DEF TypeOK
<1>3. /\ member'[u] = n /\ \A m \in Members : m # u => member'[m] = member[m]
      /\ \A v \in Users : pending'[v] \in {0, pending[v]}
  BY DEF TypeOK
<1>4. \A r : roleOffStage(r) # "SPEAKER"
  BY DEF roleOffStage
<1>5. SpeakersAreSeated'
  BY <1>3, <1>4, PeopleAssumption DEF SpeakersAreSeated, Members
<1>6. SeatIsFree'
  <2>1. \A m \in Members : member'[m].seat \in {member[m].seat, Null}
    BY <1>3
  <2>2. Taken' \subseteq Taken
    BY <2>1 DEF Taken, OnStage
  <2> QED BY <2>2 DEF SeatIsFree, TakesSeat
<1>7. OneAtATime'
  BY DEF OneAtATime, Busy
<1>8. ASSUME NEW w \in Workers PROVE TaskIsSound(task[w])'
  <2>1. task[w].of \in Members /\ task[w] \in Task
    BY Records DEF TypeOK
  <2>2. task[w].act = "request" => task[w].of \in Users
    BY DEF TaskIsSound
  <2> QED BY <1>3, <2>1, <2>2, TaskKept DEF Busy
<1> QED BY <1>1, <1>2, <1>5, <1>6, <1>7, <1>8

LEMMA JoinInv == ASSUME Inv, NEW u \in Users, join(u) PROVE Inv'
<1> DEFINE n == [member[u] EXCEPT !.role = "LISTENER"]
<1> USE DEF Inv
<1>1. u \in Members /\ member[u] \in Member /\ u # Owner /\ pending[u] \in 0..2
  BY PeopleAssumption DEF TypeOK, Members
<1>2. member[u].role = "NONE" /\ UNCHANGED <<status, pending, task, seen, overtaken>>
  BY DEF join
<1>3. member[u].seat = Null /\ pending[u] = 0
  BY <1>1, <1>2 DEF StageIsConsistent, OnStage, PendingIsServable, Active
<1>4. /\ n \in Member /\ n.role = "LISTENER" /\ n.seat = Null /\ n.kicked = member[u].kicked
      /\ n.micMuted = member[u].micMuted /\ n.muted = member[u].muted
  BY <1>1, <1>3 DEF Member, Roles
<1>5. Becomes(u, n, 0)
  BY <1>1, <1>3, <1>4 DEF Becomes, MutedIsSilent
<1>6. member' = [member EXCEPT ![u] = n] /\ pending' = [pending EXCEPT ![u] = 0]
  BY <1>2, <1>3 DEF join, TypeOK
<1>7. SweepIsFresh'
  BY <1>2, <1>3, <1>6 DEF SweepIsFresh, TypeOK, Members
<1> QED BY <1>1, <1>2, <1>3, <1>4, <1>5, <1>6, <1>7, LocklessStep DEF TypeOK

LEMMA SetMicInv == ASSUME Inv, NEW m \in Members, NEW off \in BOOLEAN, setMic(m, off) PROVE Inv'
<1> DEFINE n == [member[m] EXCEPT !.micMuted = off]
<1> USE DEF Inv
<1>1. member[m] \in Member
  BY DEF TypeOK
<1>2. UNCHANGED <<status, pending, task, overtaken>> /\ seen' = Touched({m})
  BY DEF setMic
<1>3. member[m].seat # Null /\ (off \/ ~member[m].muted)
  BY DEF setMic, Opens
<1>4. /\ n \in Member /\ n.role = member[m].role /\ n.seat = member[m].seat
      /\ n.kicked = member[m].kicked /\ n.micMuted = off /\ n.muted = member[m].muted
  BY <1>1 DEF Member
<1>5. Becomes(m, n, 0)
  BY <1>3, <1>4 DEF Becomes, StageIsConsistent, OnStage, OwnerIsOne, StageRoles, Members, TypeOK
<1>6. m \in Users => pending[m] = 0
  BY <1>3 DEF PendingIsServable, TypeOK
<1>7. member' = [member EXCEPT ![m] = n]
  BY DEF setMic
<1>8. pending' = [pending EXCEPT ![m] = 0]
  BY <1>2, <1>6 DEF TypeOK
<1>9. SweepIsFresh' /\ seen' \in [Sweepers -> [Users -> Roles \cup {"NONE", Unread}]]
  BY <1>2, <1>7, TouchedRows DEF SweepIsFresh, TypeOK, Members
<1> QED BY <1>2, <1>4, <1>5, <1>6, <1>7, <1>8, <1>9, LocklessStep DEF TypeOK

LEMMA CancelInv == ASSUME Inv, NEW u \in Users, cancelRequest(u) PROVE Inv'
<1> USE DEF Inv
<1>1. u \in Members /\ member[u] \in Member /\ u # Owner
  BY PeopleAssumption DEF TypeOK, Members
<1>2. UNCHANGED <<status, member, task, seen, overtaken>> /\ pending' = [pending EXCEPT ![u] = 0]
  BY DEF cancelRequest
<1>3. Becomes(u, member[u], 0)
  BY <1>1 DEF Becomes, StageIsConsistent, OnStage, OwnerIsOne, StageRoles, MutedIsSilent, TypeOK
<1>4. member' = [member EXCEPT ![u] = member[u]]
  BY <1>2 DEF TypeOK
<1>5. SweepIsFresh'
  BY <1>2 DEF SweepIsFresh
<1> QED BY <1>1, <1>2, <1>3, <1>4, <1>5, LocklessStep DEF TypeOK

LEMMA KickEndsInv == ASSUME Inv, NEW u \in Users, KickEnds(u) PROVE Inv'
<1> DEFINE n == [member[u] EXCEPT !.kicked = FALSE]
<1> USE DEF Inv
<1>1. u \in Members /\ member[u] \in Member /\ u # Owner
  BY PeopleAssumption DEF TypeOK, Members
<1>2. UNCHANGED <<status, pending, task, seen, overtaken>> /\ member[u].kicked
  BY DEF KickEnds
<1>3. member[u].seat = Null /\ pending[u] = 0
  BY <1>1, <1>2 DEF StageIsConsistent, OnStage, PendingIsServable, Active, TypeOK
<1>4. /\ n \in Member /\ n.role = member[u].role /\ n.seat = Null /\ ~n.kicked
      /\ n.micMuted = member[u].micMuted /\ n.muted = member[u].muted
  BY <1>1, <1>3 DEF Member
<1>5. Becomes(u, n, 0)
  BY <1>1, <1>3, <1>4 DEF Becomes, MutedIsSilent, OwnerIsOne
<1>6. member' = [member EXCEPT ![u] = n] /\ pending' = [pending EXCEPT ![u] = 0]
  BY <1>2, <1>3 DEF KickEnds, TypeOK
<1>7. SweepIsFresh'
  BY <1>1, <1>2, <1>4, <1>6 DEF SweepIsFresh, TypeOK, Members
<1> QED BY <1>1, <1>2, <1>3, <1>4, <1>5, <1>6, <1>7, LocklessStep DEF TypeOK

LEMMA SweepFreesInv ==
    ASSUME Inv, NEW w \in Sweepers, NEW u \in Users, sweepFrees(w, u) PROVE Inv'
<1> DEFINE n == OffStage(member[u], seen[w][u])
<1> USE DEF Inv
<1>1. u \in Members /\ member[u] \in Member /\ u # Owner
  BY PeopleAssumption DEF TypeOK, Members
<1>2. /\ UNCHANGED <<status, pending, task>> /\ member[u].seat # Null
      /\ seen' = [Touched({u}) EXCEPT ![w][u] = Unread]
      /\ overtaken' = IF \E v \in Workers : task[v].act # "idle" /\ task[v].of = u
                      THEN overtaken \cup {u} ELSE overtaken
  BY DEF sweepFrees
<1>3. pending[u] = 0 /\ seen[w][u] = member[u].role /\ member[u].role \in StageRoles
  BY <1>1, <1>2 DEF sweepFrees, SweepIsFresh, StageIsConsistent, OnStage, PendingIsServable,
                    OwnerIsOne, StageRoles, TypeOK
<1>4. /\ n \in Member /\ n.role = roleOffStage(member[u].role) /\ n.seat = Null
      /\ n.micMuted /\ n.kicked = member[u].kicked
  BY <1>1, <1>3 DEF Member, OffStage, roleOffStage, StageRoles, Roles
<1>5. Becomes(u, n, 0)
  BY <1>1, <1>3, <1>4 DEF Becomes, roleOffStage, StageRoles
<1>6. member' = [member EXCEPT ![u] = n] /\ pending' = [pending EXCEPT ![u] = 0]
  BY <1>2, <1>3 DEF sweepFrees, TypeOK
<1>7. seen' = Touched({u})
  BY <1>2 DEF Touched, TypeOK
<1>8. SweepIsFresh' /\ seen' \in [Sweepers -> [Users -> Roles \cup {"NONE", Unread}]]
  BY <1>1, <1>6, <1>7, TouchedRows DEF SweepIsFresh, TypeOK, Members
<1>9. /\ overtaken \subseteq overtaken' /\ overtaken' \subseteq Users
      /\ \A v \in Workers : Busy(v) /\ task[v].of = u => u \in overtaken'
  BY <1>2 DEF TypeOK, Busy
<1> QED BY <1>1, <1>2, <1>3, <1>4, <1>5, <1>6, <1>8, <1>9, LocklessStep

-----------------------------------------------------------------------------
(* What the lock covers.                                                   *)

\* The rows stay.
LEMMA RowsKept ==
    ASSUME Inv, UNCHANGED <<status, member, pending, overtaken>>
    PROVE  OwnerIsOne' /\ StageIsConsistent' /\ PendingIsServable' /\ MutedIsSilent'
           /\ SpeakersAreSeated' /\ Taken' = Taken
  BY DEF Inv, OwnerIsOne, StageIsConsistent, OnStage, Taken, PendingIsServable, MutedIsSilent,
         SpeakersAreSeated

LEMMA LockInv ==
    ASSUME Inv, NEW w \in Workers, NEW by \in Members, NEW u \in Users, NEW act \in Acts,
           Lock(w, by, u, act)
    PROVE  Inv'
<1> DEFINE t == [act |-> act, of |-> u, row |-> member[u], seat |-> firstFreeSeat]
<1> USE DEF Inv
<1>1. /\ UNCHANGED <<status, member, pending, seen, overtaken>>
      /\ ~Locked /\ status = "LIVE" /\ Admits(by, u, act) /\ task' = [task EXCEPT ![w] = t]
  BY DEF Lock
<1>2. u \in Members /\ u # Owner /\ member[u] \in Member /\ member[u].role # "OWNER"
  BY PeopleAssumption DEF TypeOK, Members, OwnerIsOne
<1>3. firstFreeSeat = Null \/ firstFreeSeat \in Seats \ Taken
  BY FreeSeat
<1>4. t \in Task
  BY <1>2, <1>3 DEF Task
<1>5. TypeOK'
  BY <1>1, <1>4 DEF TypeOK
<1>6. /\ task'[w] = t /\ \A v \in Workers : v # w => task'[v] = task[v]
      /\ \A v \in Workers : task[v].act = "idle"
  BY <1>1 DEF TypeOK, Locked
<1>7. act \in Seating /\ Active(member[u]) /\ member[u].seat = Null => firstFreeSeat # Null
  BY <1>1 DEF Admits, decideRequest, memberAction, leave, leaveStage, requestToSpeak, Seating
<1>8. SeatIsFree'
  <2>1. ASSUME NEW v \in Workers, TakesSeat(task'[v])
        PROVE  task'[v].seat \in Seats /\ task'[v].seat \notin Taken
    <3>1. CASE v = w
      BY <2>1, <3>1, <1>3, <1>6, <1>7 DEF TakesSeat
    <3>2. CASE v # w
      BY <2>1, <3>2, <1>6 DEF TakesSeat, Seating
    <3> QED BY <3>1, <3>2
  <2> QED BY <1>1, <2>1, RowsKept DEF SeatIsFree, TakesSeat
<1>9. OneAtATime'
  BY <1>6 DEF OneAtATime, Busy
<1>10. SweepIsFresh'
  BY <1>1 DEF SweepIsFresh
<1>11. TaskIsSound(task[w])'
  <2>1. Admitted(act, member[u])
    <3>1. pending[u] > 0 => Active(member[u]) /\ member[u].seat = Null
      BY DEF PendingIsServable
    <3>2. member[u].role # "NONE"
      BY <1>1, <3>1 DEF Admits, decideRequest, memberAction, leave, leaveStage, requestToSpeak,
                        Active
    <3>3. member[u].seat # Null => member[u].role \in StageRoles
      BY <1>2 DEF StageIsConsistent, OnStage, StageRoles
    <3>4. act = "request" => Active(member[u]) /\ member[u].seat = Null
      BY <1>1 DEF Admits, decideRequest, memberAction, leave, leaveStage, requestToSpeak
    <3>5. /\ act \in {"kick", "make_moderator"} => member[u].role # "BANNED"
          /\ act = "remove_moderator" => member[u].role = "MODERATOR"
          /\ act = "demote" => member[u].seat # Null
          /\ act = "unban" => member[u].role = "BANNED"
      BY <1>1 DEF Admits, memberAction
    <3> QED BY <1>2, <3>2, <3>3, <3>4, <3>5 DEF Admitted
  <2>2. act = "request" => pending[u] = 0
    BY <1>1 DEF Admits, memberAction, requestToSpeak
  <2>3. Follows(member[u], member[u])
    BY DEF Follows
  <2>4. /\ task'[w].act = act /\ task'[w].of = u /\ task'[w].row = member[u]
        /\ member' = member /\ pending' = pending /\ status' = "LIVE"
    BY <1>1, <1>6
  <2> QED BY <2>1, <2>2, <2>3, <2>4 DEF TaskIsSound
<1>12. \A v \in Workers : TaskIsSound(task[v])'
  <2>1. ASSUME NEW v \in Workers, v # w PROVE TaskIsSound(task[v])'
    <3>1. task'[v].act = "idle"
      BY <1>6, <2>1
    <3> QED BY <3>1 DEF TaskIsSound
  <2> QED BY <1>11, <2>1
<1> QED BY <1>1, <1>5, <1>8, <1>9, <1>10, <1>12, RowsKept

LEMMA LockToEndInv == ASSUME Inv, NEW w \in Workers, LockToEnd(w) PROVE Inv'
<1> DEFINE t == [Idle EXCEPT !.act = "end"]
<1> USE DEF Inv
<1>1. /\ UNCHANGED <<status, member, pending, seen, overtaken>>
      /\ ~Locked /\ status = "LIVE" /\ task' = [task EXCEPT ![w] = t]
  BY DEF LockToEnd
<1>2. t \in Task /\ t.act = "end"
  BY Records DEF Idle, Task, Acts
<1>3. TypeOK'
  BY <1>1, <1>2 DEF TypeOK
<1>4. /\ task'[w] = t /\ \A v \in Workers : v # w => task'[v] = task[v]
      /\ \A v \in Workers : task[v].act = "idle"
  BY <1>1 DEF TypeOK, Locked
<1>5. SeatIsFree' /\ OneAtATime'
  BY <1>2, <1>4 DEF SeatIsFree, TakesSeat, Seating, OneAtATime, Busy
<1>6. SweepIsFresh'
  BY <1>1 DEF SweepIsFresh
<1>7. \A v \in Workers : TaskIsSound(task[v])'
  BY <1>1, <1>2, <1>4 DEF TaskIsSound
<1> QED BY <1>1, <1>3, <1>5, <1>6, <1>7, RowsKept

LEMMA RollbackInv == ASSUME Inv, NEW w \in Workers, Rollback(w) PROVE Inv'
<1> USE DEF Inv
<1>1. /\ UNCHANGED <<status, member, pending, seen, overtaken>>
      /\ task' = [task EXCEPT ![w] = Idle]
  BY DEF Rollback
<1>2. Idle \in Task /\ Idle.act = "idle"
  BY Records DEF Idle
<1>3. TypeOK'
  BY <1>1, <1>2 DEF TypeOK
<1>4. \A v \in Workers : task'[v] \in {task[v], Idle}
  BY <1>1 DEF TypeOK
<1>5. SeatIsFree'
  BY <1>1, <1>2, <1>4, RowsKept DEF SeatIsFree, TakesSeat, Seating
<1>6. OneAtATime'
  BY <1>2, <1>4 DEF OneAtATime, Busy
<1>7. SweepIsFresh'
  BY <1>1 DEF SweepIsFresh
<1>8. \A v \in Workers : TaskIsSound(task[v])'
  BY <1>1, <1>2, <1>4 DEF TaskIsSound
<1> QED BY <1>1, <1>3, <1>5, <1>6, <1>7, <1>8, RowsKept

LEMMA SweepReadsInv == ASSUME Inv, NEW w \in Sweepers, sweepReads(w) \/ sweepStops(w) PROVE Inv'
<1> USE DEF Inv
<1>1. UNCHANGED <<status, member, pending, task, overtaken>>
  BY DEF sweepReads, sweepStops
<1>2. PICK us \in SUBSET (OnStage \ {Owner}) :
        seen' = [seen EXCEPT ![w] = [u \in Users |-> IF u \in us THEN member[u].role ELSE Unread]]
  <2>1. CASE sweepReads(w)
    BY <2>1 DEF sweepReads
  <2>2. CASE sweepStops(w)
    <3>1. seen' = [seen EXCEPT ![w] = [u \in Users |-> IF u \in {} THEN member[u].role ELSE Unread]]
      BY <2>2 DEF sweepStops
    <3>2. {} \in SUBSET (OnStage \ {Owner})
      OBVIOUS
    <3> QED BY <3>1, <3>2, Zenon
  <2> QED BY <2>1, <2>2
<1>3. \A u \in Users : u \in Members /\ member[u].role \in Roles \cup {"NONE"}
  BY Records DEF TypeOK, Members
<1>4. TypeOK'
  BY <1>1, <1>2, <1>3 DEF TypeOK
<1>5. SweepIsFresh'
  BY <1>1, <1>2, <1>3 DEF SweepIsFresh, TypeOK, OnStage
<1>6. SeatIsFree' /\ OneAtATime' /\ \A v \in Workers : TaskIsSound(task[v])'
  BY <1>1, RowsKept DEF SeatIsFree, TakesSeat, OneAtATime, Busy, TaskIsSound
<1> QED BY <1>1, <1>4, <1>5, <1>6, RowsKept

LEMMA EndInv == ASSUME Inv, NEW w \in Workers, endCouncil(w) PROVE Inv'
<1> USE DEF Inv
<1>1. /\ status' = "ENDED" /\ pending' = [u \in Users |-> 0] /\ overtaken' = overtaken
      /\ member' = [m \in Members |-> IF m \in OnStage
                                      THEN [member[m] EXCEPT !.seat = Null, !.micMuted = TRUE]
                                      ELSE member[m]]
      /\ seen' = Touched(OnStage) /\ task' = [task EXCEPT ![w] = Idle] /\ Busy(w)
  BY DEF endCouncil, Busy
<1>2. ASSUME NEW m \in Members
      PROVE  /\ member'[m] \in Member /\ member'[m].seat = Null
             /\ member'[m].role = member[m].role /\ member'[m].kicked = member[m].kicked
             /\ member'[m].micMuted
  BY <1>1 DEF TypeOK, Member, OnStage, MutedIsSilent
<1>3. \A v \in Workers : task'[v].act = "idle"
  BY <1>1 DEF OneAtATime, Busy, TypeOK, Idle
<1>4. TypeOK'
  <2>1. Idle \in Task
    BY Records
  <2>2. member' \in [Members -> Member]
    BY <1>1, <1>2
  <2>3. pending' \in [Users -> 0..2] /\ task' \in [Workers -> Task]
    <3>1. 0 \in 0..2
      OBVIOUS
    <3> QED BY <1>1, <2>1, <3>1 DEF TypeOK
  <2>4. seen' \in [Sweepers -> [Users -> Roles \cup {"NONE", Unread}]]
    BY <1>1, TouchedRows
  <2> QED BY <1>1, <2>2, <2>3, <2>4 DEF TypeOK
<1>5. OwnerIsOne' /\ Owner \in Members /\ Users \subseteq Members
  BY <1>2 DEF OwnerIsOne, Members
<1>6. StageIsConsistent' /\ MutedIsSilent'
  BY <1>2 DEF StageIsConsistent, OnStage, MutedIsSilent
<1>7. PendingIsServable' /\ SpeakersAreSeated'
  <2>1. status' # "LIVE" /\ \A u \in Users : pending'[u] = 0
    BY <1>1
  <2> QED BY <2>1 DEF PendingIsServable, SpeakersAreSeated
<1>8. SeatIsFree' /\ OneAtATime' /\ \A v \in Workers : TaskIsSound(task[v])'
  BY <1>3 DEF SeatIsFree, TakesSeat, Seating, OneAtATime, Busy, TaskIsSound
<1>9. SweepIsFresh'
  <2>1. SUFFICES ASSUME NEW v \in Sweepers, NEW u \in Users, seen'[v][u] # Unread
                 PROVE  FALSE
    BY DEF SweepIsFresh
  <2>2. Touched(OnStage)[v][u] # Unread
    BY <1>1, <2>1
  <2>3. u \notin OnStage /\ member[u].seat # Null
    BY <2>2, TouchedRows
  <2> QED BY <1>5, <2>3 DEF OnStage
<1> QED BY <1>4, <1>5, <1>6, <1>7, <1>8, <1>9

\* What a request writes suits the row, swept or not.
LEMMA WrittenIsSound ==
    ASSUME Inv, NEW w \in Workers, task[w].act \notin {"idle", "end"}
    PROVE  LET t == task[w] IN
           /\ t.of \in Users
           /\ Becomes(t.of, Written(t), Requests(t))
           /\ Written(t).role = "SPEAKER" /\ t.of \notin overtaken => Written(t).seat # Null
           /\ Written(t).role = "MODERATOR" =>
                member[t.of].role = "MODERATOR" \/ t.act = "make_moderator"
           /\ member[t.of].role = "BANNED" => Written(t).role = "BANNED" \/ t.act = "unban"
<1> DEFINE t == task[w]
           now == member[t.of]
           n == Written(t)
           p == Requests(t)
<1> USE DEF Inv
<1>1. /\ t.of \in Users /\ status = "LIVE" /\ Admitted(t.act, t.row) /\ Follows(t.row, now)
      /\ now.seat # t.row.seat => t.of \in overtaken
      /\ t.act = "request" => pending[t.of] = 0
  BY DEF TaskIsSound
<1>2. /\ t \in Task /\ t.of \in Members /\ t.of # Owner /\ now \in Member /\ t.row \in Member
      /\ pending[t.of] \in 0..2 /\ t.act \in Acts
  BY <1>1, PeopleAssumption, Records DEF TypeOK, Members
<1>3. /\ now.role \in Roles \cup {"NONE"} /\ now.role # "OWNER"
      /\ now.seat \in Seats \cup {Null} /\ now.kicked \in BOOLEAN /\ now.muted \in BOOLEAN
      /\ now.micMuted \in BOOLEAN
      /\ t.row.role \in Roles /\ t.row.role # "OWNER"
  BY <1>1, <1>2, Records DEF OwnerIsOne, Admitted
<1>4. now.seat # Null => now.role \in StageRoles /\ ~now.kicked
  BY <1>2, <1>3 DEF StageIsConsistent, OnStage, StageRoles
<1>5. now.seat = Null \/ now.muted => now.micMuted
  BY <1>2 DEF MutedIsSilent
<1>6. pending[t.of] > 0 => pending[t.of] = 1 /\ Active(now) /\ now.seat = Null
  BY <1>1 DEF PendingIsServable
<1>7. now.role = "SPEAKER" /\ t.of \notin overtaken => now.seat # Null
  BY <1>1 DEF SpeakersAreSeated
<1>8. TakesSeat(t) => t.seat \in Seats /\ t.seat \notin Taken /\ t.seat # Null
  BY SeatsAreNumbers DEF SeatIsFree
<1> DEFINE Good ==
        /\ n \in Member /\ n.role # "OWNER"
        /\ n.seat # Null => /\ n.role \in StageRoles /\ ~n.kicked
                            /\ n.seat = now.seat \/ n.seat \notin Taken
        /\ n.seat = Null \/ n.muted => n.micMuted
        /\ n.role = "SPEAKER" /\ t.of \notin overtaken => n.seat # Null
        /\ n.role = "MODERATOR" => now.role = "MODERATOR" \/ t.act = "make_moderator"
        /\ now.role = "BANNED" => n.role = "BANNED" \/ t.act = "unban"
        /\ p \in 0..1 /\ (p > 0 => Active(n) /\ n.seat = Null)
<1>9. ASSUME TakesSeat(t)
       PROVE  Good
  <2>1. n = [now EXCEPT !.seat = t.seat, !.role = roleOnStage(t.row.role),
                        !.micMuted = TRUE, !.muted = FALSE]
    <3>1. t.act \in {"accept", "promote"}
      BY <1>9 DEF TakesSeat, Seating
    <3> QED BY <3>1, <1>9 DEF Written
  <2>2. p = 0
    BY <1>9 DEF Requests, Cancels, TakesSeat, Seating
  <2>3. t.row.seat = Null /\ Active(t.row) /\ now.seat = Null /\ now.role = t.row.role
        /\ t.row.role \in {"LISTENER", "SPEAKER", "MODERATOR"} /\ ~now.kicked
    BY <1>9, <1>1, <1>3 DEF TakesSeat, Follows, Active, Roles
  <2>4. roleOnStage(t.row.role) \in StageRoles
        /\ (roleOnStage(t.row.role) = "MODERATOR" => now.role = "MODERATOR")
    BY <2>3 DEF roleOnStage, StageRoles
  <2>5. /\ n \in Member /\ n.seat = t.seat /\ n.role = roleOnStage(t.row.role) /\ n.micMuted
        /\ n.kicked = now.kicked
    BY <2>1, <2>4, <1>2, <1>8, <1>9 DEF Member, StageRoles, Roles
  <2> QED BY <2>2, <2>3, <2>4, <2>5, <1>8, <1>9 DEF StageRoles
<1>10. ASSUME t.act = "demote" \/ (t.act \in {"leave", "leaveStage"} /\ t.row.seat # Null)
       PROVE  Good
  <2>1. /\ n.seat = Null /\ n.role = roleOffStage(t.row.role) /\ n.micMuted /\ n \in Member
        /\ n.kicked = now.kicked
    <3>1. n \in {OffStage(now, t.row.role), [OffStage(now, t.row.role) EXCEPT !.muted = FALSE]}
      BY <1>10 DEF Written, TakesSeat, Seating
    <3>2. roleOffStage(t.row.role) \in Roles
      BY <1>3 DEF roleOffStage, Roles
    <3> QED BY <3>1, <3>2, <1>2 DEF OffStage, Member
  <2>2. t.row.role \in StageRoles
    BY <1>10, <1>1 DEF Admitted
  <2>3. p \in {0, pending[t.of]}
    BY <1>10 DEF Requests, Cancels, TakesSeat, Seating
  <2>4. now.role = t.row.role \/ now.role = roleOffStage(t.row.role)
    BY <1>1 DEF Follows
  <2> QED BY <2>1, <2>2, <2>3, <2>4, <1>2, <1>6 DEF roleOffStage, StageRoles, Active
<1>11. ASSUME t.act \in {"mute", "unmute"}
       PROVE  Good
  <2>1. n = [now EXCEPT !.micMuted = TRUE, !.muted = TRUE] \/ n = [now EXCEPT !.muted = FALSE]
    BY <1>11 DEF Written, TakesSeat, Seating
  <2>2. /\ n \in Member /\ n.seat = now.seat /\ n.role = now.role /\ n.kicked = now.kicked
        /\ n.micMuted \/ (n.micMuted = now.micMuted /\ ~n.muted)
    BY <2>1, <1>2 DEF Member
  <2>3. p = pending[t.of]
    BY <1>11 DEF Requests, Cancels, TakesSeat, Seating
  <2> QED BY <2>2, <2>3, <1>2, <1>3, <1>4, <1>5, <1>6, <1>7 DEF Active
<1>12. ASSUME t.act \in {"kick", "ban"}
       PROVE  Good
  <2>1. \/ n = [Visitor EXCEPT !.role = "LISTENER", !.kicked = TRUE] /\ t.act = "kick"
        \/ n = [Visitor EXCEPT !.role = "BANNED"] /\ t.act = "ban"
    <3>1. ~TakesSeat(t)
      BY <1>12 DEF TakesSeat, Seating
    <3>2. ASSUME t.act = "kick" PROVE n = [Visitor EXCEPT !.role = "LISTENER", !.kicked = TRUE]
      BY <3>1, <3>2 DEF Written
    <3>3. ASSUME t.act = "ban" PROVE n = [Visitor EXCEPT !.role = "BANNED"]
      BY <3>1, <3>3 DEF Written
    <3>4. t.act = "kick" \/ t.act = "ban"
      BY <1>12
    <3> HIDE DEF n, t
    <3> QED BY <3>2, <3>3, <3>4
  <2>2. /\ n \in Member /\ n.seat = Null /\ n.micMuted
        /\ n.role = IF t.act = "kick" THEN "LISTENER" ELSE "BANNED"
    BY <2>1, <1>12, Records DEF Member, Visitor, Roles
  <2>3. p = 0
    BY <1>12 DEF Requests, Cancels
  <2>4. t.act = "kick" => now.role # "BANNED"
    BY <1>1 DEF Admitted, Follows, roleOffStage
  <2> QED BY <2>2, <2>3, <2>4, <1>12
<1>13. ASSUME t.act \in {"unban", "make_moderator", "remove_moderator"}
       PROVE  Good
  <2>1. PICK r \in Roles : n = [now EXCEPT !.role = r] /\
           r = CASE t.act = "unban" -> "LISTENER" [] t.act = "make_moderator" -> "MODERATOR"
                 [] OTHER -> PlainRole(t)
    BY <1>13 DEF Written, TakesSeat, Seating, PlainRole, Roles
  <2>2. /\ n \in Member /\ n.seat = now.seat /\ n.role = r /\ n.kicked = now.kicked
        /\ n.micMuted = now.micMuted /\ n.muted = now.muted
    BY <2>1, <1>2 DEF Member
  <2>3. p = pending[t.of]
    BY <1>13 DEF Requests, Cancels, TakesSeat, Seating
  <2>4. CASE t.act = "unban"
    <3>1. now.role = "BANNED" /\ r = "LISTENER"
      BY <1>1, <2>1, <2>4 DEF Admitted, Follows, roleOffStage
    <3> QED BY <3>1, <2>2, <2>3, <2>4, <1>2, <1>4, <1>5, <1>6 DEF Active, StageRoles
  <2>5. CASE t.act = "make_moderator"
    <3>1. r = "MODERATOR" /\ now.role # "BANNED"
      BY <1>1, <2>1, <2>5 DEF Admitted, Follows, roleOffStage
    <3> QED BY <3>1, <2>2, <2>3, <2>5, <1>2, <1>4, <1>5, <1>6 DEF Active, StageRoles
  <2>6. CASE t.act = "remove_moderator"
    <3>1. r = IF t.row.seat # Null THEN "SPEAKER" ELSE "LISTENER"
      BY <2>1, <2>6 DEF PlainRole
    <3>2. now.role = "MODERATOR" /\ (now.seat # Null => t.row.seat # Null)
          /\ (now.seat = t.row.seat \/ t.of \in overtaken)
      BY <1>1, <2>6 DEF Admitted, Follows, roleOffStage
    <3> QED BY <3>1, <3>2, <2>2, <2>3, <2>6, <1>2, <1>4, <1>5, <1>6 DEF Active, StageRoles
  <2> QED BY <1>13, <2>4, <2>5, <2>6
<1>14. ASSUME ~TakesSeat(t),
              \/ t.act \in {"request", "accept", "reject", "promote"}
              \/ t.act \in {"leave", "leaveStage"} /\ t.row.seat = Null
       PROVE  Good
  <2>1. n = now
    BY <1>14 DEF Written
  <2>2. \/ p \in {0, pending[t.of], pending[t.of] - 1} /\ p \in Nat
        \/ t.act = "request" /\ p = pending[t.of] + 1
    <3>1. Cancels(t) <=> t.act = "leave"
      BY <1>14 DEF Cancels
    <3>2. ASSUME t.act = "request" PROVE p = pending[t.of] + 1
      BY <3>1, <3>2 DEF Requests
    <3>3. ASSUME t.act \in {"promote", "leaveStage"} PROVE p = pending[t.of]
      BY <3>1, <3>3 DEF Requests
    <3>4. ASSUME t.act \in {"accept", "reject"}
          PROVE  p = IF pending[t.of] = 0 THEN 0 ELSE pending[t.of] - 1
      BY <3>1, <3>4 DEF Requests
    <3>5. ASSUME t.act = "leave" PROVE p = 0
      BY <3>1, <3>5 DEF Requests
    <3>6. t.act \in {"request", "accept", "reject", "promote", "leave", "leaveStage"}
      BY <1>14
    <3>7. pending[t.of] \in Nat /\ (pending[t.of] # 0 => pending[t.of] - 1 \in Nat)
      BY <1>2
    <3> HIDE DEF p, t
    <3> QED BY <3>2, <3>3, <3>4, <3>5, <3>6, <3>7
  <2>3. t.act = "request" => Active(now) /\ now.seat = Null /\ pending[t.of] = 0
    BY <1>1 DEF Admitted, Follows, Active
  <2> QED BY <2>1, <2>2, <2>3, <1>2, <1>3, <1>4, <1>5, <1>6, <1>7
<1>15. Good
  BY <1>2, <1>9, <1>10, <1>11, <1>12, <1>13, <1>14 DEF Acts
<1> QED BY <1>1, <1>2, <1>15 DEF Becomes

LEMMA CommitInv == ASSUME Inv, NEW w \in Workers, Commit(w) PROVE Inv'
<1> DEFINE t == task[w]
<1> USE DEF Inv
<1>1. /\ t.act \notin {"idle", "end"} /\ UNCHANGED <<status, overtaken>>
      /\ member' = [member EXCEPT ![t.of] = Written(t)]
      /\ pending' = [pending EXCEPT ![t.of] = Requests(t)]
      /\ seen' = IF member' = member THEN seen ELSE Touched({t.of})
      /\ task' = [task EXCEPT ![w] = Idle]
  BY DEF Commit
<1>2. /\ t.of \in Users /\ Becomes(t.of, Written(t), Requests(t))
      /\ Written(t).role = "SPEAKER" /\ t.of \notin overtaken => Written(t).seat # Null
  BY <1>1, WrittenIsSound
<1>3. t.of \in Members /\ Users \subseteq Members
  BY <1>2 DEF Members
<1>4. /\ member' \in [Members -> Member] /\ pending' \in [Users -> 0..2]
      /\ OwnerIsOne' /\ StageIsConsistent' /\ PendingIsServable' /\ MutedIsSilent'
  BY <1>1, <1>2, <1>3, RowChanges
<1>5. \A v \in Workers : task'[v].act = "idle"
  BY <1>1 DEF OneAtATime, Busy, TypeOK, Idle
<1>6. TypeOK'
  <2>1. task' \in [Workers -> Task]
    BY <1>1, Records DEF TypeOK
  <2>2. seen' \in [Sweepers -> [Users -> Roles \cup {"NONE", Unread}]]
    BY <1>1, TouchedRows DEF TypeOK
  <2> QED BY <1>1, <1>4, <2>1, <2>2 DEF TypeOK
<1>7. SpeakersAreSeated'
  BY <1>1, <1>2, <1>3 DEF SpeakersAreSeated, TypeOK
<1>8. SeatIsFree' /\ OneAtATime' /\ \A v \in Workers : TaskIsSound(task[v])'
  BY <1>5 DEF SeatIsFree, TakesSeat, Seating, OneAtATime, Busy, TaskIsSound
<1>9. SweepIsFresh'
  <2>1. CASE member' = member
    BY <1>1, <2>1 DEF SweepIsFresh
  <2>2. CASE member' # member
    BY <1>1, <1>3, <2>2, TouchedRows DEF SweepIsFresh, TypeOK
  <2> QED BY <2>1, <2>2
<1> QED BY <1>4, <1>6, <1>7, <1>8, <1>9

-----------------------------------------------------------------------------

LEMMA NextInv == Inv /\ [Next]_vars => Inv'
<1> SUFFICES ASSUME Inv, [Next]_vars PROVE Inv'
  OBVIOUS
<1>1. CASE UNCHANGED vars
  BY <1>1 DEF vars, Inv, TypeOK, OwnerIsOne, StageIsConsistent, OnStage, PendingIsServable,
              MutedIsSilent, SpeakersAreSeated, SeatIsFree, TakesSeat, Taken, OneAtATime, Busy,
              SweepIsFresh, TaskIsSound
<1>2. ASSUME NEW w \in Workers, NEW by \in Members, NEW u \in Users, NEW act \in Acts,
             Lock(w, by, u, act)
      PROVE  Inv'
  BY <1>2, LockInv
<1>3. ASSUME NEW w \in Workers, LockToEnd(w) \/ Commit(w) \/ endCouncil(w) \/ Rollback(w)
      PROVE  Inv'
  BY <1>3, LockToEndInv, CommitInv, EndInv, RollbackInv
<1>4. ASSUME NEW u \in Users, join(u) \/ cancelRequest(u) \/ KickEnds(u) PROVE Inv'
  BY <1>4, JoinInv, CancelInv, KickEndsInv
<1>5. ASSUME NEW m \in Members, NEW off \in BOOLEAN, setMic(m, off) PROVE Inv'
  BY <1>5, SetMicInv
<1>6. ASSUME NEW w \in Sweepers, sweepReads(w) \/ sweepStops(w) PROVE Inv'
  BY <1>6, SweepReadsInv
<1>7. ASSUME NEW w \in Sweepers, NEW u \in Users, sweepFrees(w, u) PROVE Inv'
  BY <1>7, SweepFreesInv
<1> QED BY <1>1, <1>2, <1>3, <1>4, <1>5, <1>6, <1>7 DEF Next

\* A request writes what follows from what it read; a sweep writes the role it read.
LEMMA StepGivesRoles ==
    ASSUME Inv, [Next]_vars, NEW u \in Users
    PROVE  LET done(act) == \E w \in Workers : task[w].act = act /\ task[w].of = u IN
           /\ member[u].role # "MODERATOR" /\ member'[u].role = "MODERATOR"
                => done("make_moderator")
           /\ member[u].role = "BANNED" /\ member'[u].role # "BANNED" => done("unban")
<1> DEFINE Given ==
        /\ member[u].role # "MODERATOR" /\ member'[u].role = "MODERATOR" =>
             \E w \in Workers : task[w].act = "make_moderator" /\ task[w].of = u
        /\ member[u].role = "BANNED" /\ member'[u].role # "BANNED" =>
             \E w \in Workers : task[w].act = "unban" /\ task[w].of = u
<1> USE DEF Inv
<1>1. member \in [Members -> Member] /\ u \in Members
  BY DEF TypeOK, Members
<1>2. ASSUME member' = member PROVE Given
  BY <1>2
<1>3. ASSUME NEW w \in Workers, Commit(w) PROVE Given
  <2>1. member' = [member EXCEPT ![task[w].of] = Written(task[w])]
        /\ task[w].act \notin {"idle", "end"}
    BY <1>3 DEF Commit
  <2>2. CASE task[w].of = u
    <3>1. member'[u] = Written(task[w])
      BY <1>1, <2>1, <2>2
    <3> QED BY <2>1, <2>2, <3>1, WrittenIsSound
  <2>3. CASE task[w].of # u
    BY <1>1, <2>1, <2>3
  <2> QED BY <2>2, <2>3
<1>4. ASSUME NEW w \in Workers, endCouncil(w) PROVE Given
  <2>1. member'[u].role = member[u].role
    BY <1>1, <1>4 DEF endCouncil, Member
  <2> QED BY <2>1
<1>5. ASSUME NEW v \in Users, join(v) \/ KickEnds(v) PROVE Given
  <2>1. \/ member' = [member EXCEPT ![v].role = "LISTENER"] /\ member[v].role = "NONE"
        \/ member' = [member EXCEPT ![v].kicked = FALSE]
    BY <1>5 DEF join, KickEnds
  <2>2. member'[u].role = member[u].role \/ (member[u].role = "NONE" /\ member'[u].role = "LISTENER")
    BY <1>1, <2>1 DEF Member
  <2> QED BY <2>2
<1>6. ASSUME NEW m \in Members, NEW off \in BOOLEAN, setMic(m, off) PROVE Given
  <2>1. member'[u].role = member[u].role
    BY <1>1, <1>6 DEF setMic, Member
  <2> QED BY <2>1
<1>7. ASSUME NEW w \in Sweepers, NEW v \in Users, sweepFrees(w, v) PROVE Given
  <2>1. member' = [member EXCEPT ![v] = OffStage(member[v], seen[w][v])]
        /\ seen[w][v] = member[v].role
    BY <1>7 DEF sweepFrees, SweepIsFresh
  <2>2. member'[u].role \in {member[u].role, roleOffStage(member[u].role)}
    BY <1>1, <2>1 DEF OffStage, Member
  <2> QED BY <2>2 DEF roleOffStage
<1>8. ASSUME [Next]_vars, member' # member
      PROVE  \/ \E w \in Workers : Commit(w) \/ endCouncil(w)
             \/ \E v \in Users : join(v) \/ KickEnds(v)
             \/ \E m \in Members, off \in BOOLEAN : setMic(m, off)
             \/ \E w \in Sweepers, v \in Users : sweepFrees(w, v)
  BY <1>8 DEF Next, vars, Lock, LockToEnd, Rollback, cancelRequest, sweepReads, sweepStops
<1>9. Given
  BY <1>2, <1>3, <1>4, <1>5, <1>6, <1>7, <1>8
<1> QED BY <1>9

LEMMA InvHolds == Spec => []Inv
  BY InitInv, NextInv, PTL DEF Spec

\* Every row, request, handler and sweep keeps its type (schema.prisma), for any
\* number of people and seats.
THEOREM TypeCorrect == Spec => []TypeOK
  BY InvHolds, PTL DEF Inv

\* The seat a request picked under the council's lock is still free when it takes
\* it (withCouncilLock, takeSeat).
THEOREM SeatStaysFree == Spec => []SeatIsFree
  BY InvHolds, PTL DEF Inv

\* Whatever raced, a seat has one holder, who may speak; none after endCouncil.
THEOREM StageConsistent == Spec => []StageIsConsistent
  BY InvHolds, PTL DEF Inv

\* A pending speak request is its user's only one and can be granted
\* (requestToSpeak, decideRequest, memberAction).
THEOREM PendingServable == Spec => []PendingIsServable
  BY InvHolds, PTL DEF Inv

\* setMic, without the lock, never undoes a mute or opens a microphone off stage.
THEOREM MutedSilent == Spec => []MutedIsSilent
  BY InvHolds, PTL DEF Inv

\* A live council has no speaker without a seat but those that sweepStaleSpeakers
\* overtook while a request held the lock.
THEOREM SpeakersSeated == Spec => []SpeakersAreSeated
  BY InvHolds, PTL DEF Inv

\* Only make_moderator makes moderators and only unban ends a ban: the sweep and
\* the requests never write back a role that is no longer true.
THEOREM RolesGiven == Spec => RolesAreGiven
<1>1. Inv /\ [Next]_vars =>
        [\A u \in Users :
          LET done(act) == \E w \in Workers : task[w].act = act /\ task[w].of = u IN
          /\ member[u].role # "MODERATOR" /\ member'[u].role = "MODERATOR"
               => done("make_moderator")
          /\ member[u].role = "BANNED" /\ member'[u].role # "BANNED" => done("unban")]_vars
  BY StepGivesRoles
<1> QED BY <1>1, InvHolds, PTL DEF Spec, RolesAreGiven

-----------------------------------------------------------------------------
(* Councils implements Stage.  Every step but the end writes one row; what *)
(* the stage sees of the write is one of its own steps, or nothing.        *)

\* The stage, as Councils!Stage reads it from the rows.
Holders == [s \in Seats |-> OnStageAt(s)]
Mics == {m \in Members : ~member[m].micMuted}
Muted == {m \in Members : member[m].muted}
BarredRow(r) == r.role = "BANNED" \/ r.kicked

Writes(m, n) == member' = [member EXCEPT ![m] = n] /\ status' = status

LEMMA SeatedAre ==
    ASSUME Inv, NEW m \in Members
    PROVE  /\ (\E s \in Seats : m \in Holders[s]) <=> member[m].seat # Null
           /\ m \in Barred <=> BarredRow(member[m])
           /\ m \in Mics <=> ~member[m].micMuted
           /\ m \in Muted <=> member[m].muted
<1>1. member[m].seat \in Seats \cup {Null}
  BY Records DEF Inv, TypeOK
<1>2. (\E s \in Seats : m \in Holders[s]) <=> member[m].seat # Null
  BY <1>1, SeatsAreNumbers DEF Holders, OnStageAt
<1> QED BY <1>2 DEF Barred, BarredRow, Mics, Muted

LEMMA Moved ==
    ASSUME Inv, NEW m \in Members, NEW n \in Member, Writes(m, n)
    PROVE  /\ Holders' = [s \in Seats |-> IF n.seat = s THEN Holders[s] \cup {m}
                                                        ELSE Holders[s] \ {m}]
           /\ Mics' = IF n.micMuted THEN Mics \ {m} ELSE Mics \cup {m}
           /\ Muted' = IF n.muted THEN Muted \cup {m} ELSE Muted \ {m}
           /\ Barred' = IF BarredRow(n) THEN Barred \cup {m} ELSE Barred \ {m}
           /\ (status = "ENDED")' = (status = "ENDED")
<1>1. \A o \in Members : member'[o] = IF o = m THEN n ELSE member[o]
  BY DEF Inv, TypeOK, Writes
<1>2. Mics' = IF n.micMuted THEN Mics \ {m} ELSE Mics \cup {m}
  BY <1>1 DEF Mics
<1>3. Muted' = IF n.muted THEN Muted \cup {m} ELSE Muted \ {m}
  BY <1>1 DEF Muted
<1>4. Barred' = IF BarredRow(n) THEN Barred \cup {m} ELSE Barred \ {m}
  BY <1>1 DEF Barred, BarredRow
<1>5. ASSUME NEW s \in Seats
      PROVE  OnStageAt(s)' = IF n.seat = s THEN OnStageAt(s) \cup {m} ELSE OnStageAt(s) \ {m}
  BY <1>1 DEF OnStageAt
<1>6. Holders' = [s \in Seats |-> IF n.seat = s THEN Holders[s] \cup {m} ELSE Holders[s] \ {m}]
  BY <1>5 DEF Holders
<1> QED BY <1>2, <1>3, <1>4, <1>6 DEF Writes

\* What is written as it was stays.
LEMMA Stays ==
    ASSUME Inv, NEW m \in Members, NEW n \in Member, Writes(m, n)
    PROVE  /\ n.seat = member[m].seat => Holders' = Holders
           /\ n.micMuted = member[m].micMuted => Mics' = Mics
           /\ n.muted = member[m].muted => Muted' = Muted
           /\ (BarredRow(n) <=> BarredRow(member[m])) => Barred' = Barred
<1>1. \A o \in Members : member'[o] = IF o = m THEN n ELSE member[o]
  BY DEF Inv, TypeOK, Writes
<1>2. n.seat = member[m].seat => Holders' = Holders
  <2>1. n.seat = member[m].seat => \A o \in Members : member'[o].seat = member[o].seat
    BY <1>1
  <2> QED BY <2>1 DEF Holders, OnStageAt
<1>3. n.micMuted = member[m].micMuted => Mics' = Mics
  <2>1. n.micMuted = member[m].micMuted =>
          \A o \in Members : member'[o].micMuted = member[o].micMuted
    BY <1>1
  <2> QED BY <2>1 DEF Mics
<1>4. n.muted = member[m].muted => Muted' = Muted
  <2>1. n.muted = member[m].muted => \A o \in Members : member'[o].muted = member[o].muted
    BY <1>1
  <2> QED BY <2>1 DEF Muted
<1>5. (BarredRow(n) <=> BarredRow(member[m])) => Barred' = Barred
  <2>1. (BarredRow(n) <=> BarredRow(member[m])) =>
          \A o \in Members : BarredRow(member'[o]) <=> BarredRow(member[o])
    BY <1>1
  <2> QED BY <2>1 DEF Barred, BarredRow
<1> QED BY <1>2, <1>3, <1>4, <1>5

\* takeSeat.
LEMMA SitsDown ==
    ASSUME Inv, NEW m \in Members, NEW n \in Member, Writes(m, n),
           status = "LIVE", member[m].seat = Null, ~BarredRow(member[m]),
           n.seat \in Seats \ Taken, n.micMuted, ~n.muted, ~BarredRow(n)
    PROVE  Stage!Take(m, n.seat)
<1>1. member[m].micMuted
  BY DEF Inv, MutedIsSilent
<1>2. Holders[n.seat] = {}
  BY SeatsAreNumbers DEF Holders, OnStageAt, Taken, OnStage
<1>3. \A s \in Seats : m \notin Holders[s]
  BY SeatedAre
<1>4. Holders' = [Holders EXCEPT ![n.seat] = {m}]
  <2>1. ASSUME NEW s \in Seats
        PROVE  (IF n.seat = s THEN Holders[s] \cup {m} ELSE Holders[s] \ {m})
               = IF n.seat = s THEN {m} ELSE Holders[s]
    <3>1. Holders[s] \ {m} = Holders[s]
      BY <1>3
    <3>2. {} \cup {m} = {m}
      OBVIOUS
    <3> QED BY <1>2, <3>1, <3>2
  <2>2. Holders' = [s \in Seats |-> IF n.seat = s THEN {m} ELSE Holders[s]]
    <3>1. Holders' = [s \in Seats |-> IF n.seat = s THEN Holders[s] \cup {m}
                                                     ELSE Holders[s] \ {m}]
      BY Moved
    <3> QED BY <2>1, <3>1, Zenon
  <2> QED BY <2>2 DEF Holders
<1>5. /\ Mics' = Mics /\ Muted' = Muted \ {m} /\ Barred' = Barred /\ m \notin Barred
      /\ (status = "ENDED")' = (status = "ENDED")
  <2>1. Mics' = Mics /\ Barred' = Barred
    BY <1>1, Stays DEF Inv, TypeOK, Member
  <2> QED BY <2>1, Moved, SeatedAre
<1> QED BY <1>2, <1>3, <1>4, <1>5 DEF Stage!Take, Stage!Seated, Holders, Mics, Muted

\* Demotion, leaving, and what a sweep does; a member who was swept meanwhile
\* is off stage already.
LEMMA StandsUp ==
    ASSUME Inv, NEW m \in Members, NEW n \in Member, Writes(m, n), m # Owner,
           status = "LIVE" \/ member[m].seat # Null,
           n.seat = Null, n.micMuted, n.muted \in {member[m].muted, FALSE},
           BarredRow(n) <=> BarredRow(member[m])
    PROVE  Stage!Leave(m) \/ Stage!Unsilence(m) \/ UNCHANGED Stage!svars
<1>1. /\ Mics' = Mics \ {m} /\ Muted' \in {Muted, Muted \ {m}} /\ Barred' = Barred
      /\ (status = "ENDED")' = (status = "ENDED")
  <2>1. Muted' \in {Muted, Muted \ {m}}
    <3>1. CASE n.muted = member[m].muted
      BY <3>1, Stays
    <3>2. CASE ~n.muted
      BY <3>2, Moved
    <3> QED BY <3>1, <3>2
  <2> QED BY <2>1, Moved, Stays
<1>2. CASE member[m].seat # Null
  <2>1. Holders' = [s \in Seats |-> Holders[s] \ {m}]
    BY Moved, SeatsAreNumbers
  <2>2. \E s \in Seats : m \in Holders[s]
    BY <1>2, SeatedAre
  <2> QED BY <1>1, <2>1, <2>2
          DEF Stage!Leave, Stage!Rise, Stage!Seated, Holders, Mics, Muted
<1>3. CASE member[m].seat = Null
  <2>1. Holders' = Holders
    BY <1>3, Stays
  <2>2. Mics' = Mics
    BY <1>1, <1>3, SeatedAre DEF Inv, MutedIsSilent
  <2> QED BY <1>1, <1>3, <2>1, <2>2
          DEF Stage!Unsilence, Stage!svars, Holders, Mics, Muted
<1> QED BY <1>2, <1>3

\* Kick and ban.
LEMMA IsBarred ==
    ASSUME Inv, NEW m \in Members, NEW n \in Member, Writes(m, n), m # Owner,
           status = "LIVE", n.seat = Null, n.micMuted, ~n.muted, BarredRow(n)
    PROVE  Stage!Bar(m)
<1>1. Holders' = [s \in Seats |-> Holders[s] \ {m}]
  BY Moved, SeatsAreNumbers
<1> QED BY <1>1, Moved DEF Stage!Bar, Stage!Rise, Holders, Mics, Muted

\* Mute, unmute, and the microphone.
LEMMA IsMuted ==
    ASSUME Inv, NEW m \in Members, NEW n \in Member, Writes(m, n), m # Owner,
           status = "LIVE", n.seat = member[m].seat, BarredRow(n) <=> BarredRow(member[m]),
           \/ n.muted /\ n.micMuted
           \/ ~n.muted /\ n.micMuted = member[m].micMuted
    PROVE  Stage!Silence(m) \/ Stage!Unsilence(m)
<1>1. Holders' = Holders /\ Barred' = Barred /\ (status = "ENDED")' = (status = "ENDED")
  BY Stays, Moved
<1>2. CASE n.muted /\ n.micMuted
  BY <1>1, <1>2, Moved DEF Stage!Silence, Holders, Mics, Muted
<1>3. CASE ~n.muted /\ n.micMuted = member[m].micMuted
  <2>1. Mics' = Mics /\ Muted' = Muted \ {m}
    BY <1>3, Moved, Stays
  <2> QED BY <1>1, <2>1 DEF Stage!Unsilence, Holders, Mics, Muted
<1> QED BY <1>2, <1>3

LEMMA SwitchesMic ==
    ASSUME Inv, NEW m \in Members, NEW n \in Member, Writes(m, n),
           n.seat = member[m].seat, BarredRow(n) <=> BarredRow(member[m]),
           n.muted = member[m].muted,
           n.micMuted \/ (member[m].seat # Null /\ ~member[m].muted)
    PROVE  Stage!Open(m) \/ Stage!Close(m)
<1>1. /\ Holders' = Holders /\ Barred' = Barred /\ Muted' = Muted
      /\ (status = "ENDED")' = (status = "ENDED")
  BY Stays, Moved
<1>2. CASE n.micMuted
  BY <1>1, <1>2, Moved DEF Stage!Close, Holders, Mics, Muted
<1>3. CASE ~n.micMuted
  <2>1. (\E s \in Seats : m \in Holders[s]) /\ m \notin Muted
    BY <1>3, SeatedAre
  <2> QED BY <1>1, <1>3, <2>1, Moved DEF Stage!Open, Stage!Seated, Holders, Mics, Muted
<1> QED BY <1>2, <1>3

\* Any other write: a bar that is lifted, or nothing the stage sees.
LEMMA MayReturn ==
    ASSUME Inv, NEW m \in Members, NEW n \in Member, Writes(m, n),
           n.seat = member[m].seat, n.micMuted = member[m].micMuted,
           n.muted = member[m].muted, BarredRow(n) => BarredRow(member[m])
    PROVE  Stage!Readmit(m) \/ UNCHANGED Stage!svars
<1>1. /\ Holders' = Holders /\ Mics' = Mics /\ Muted' = Muted
      /\ (status = "ENDED")' = (status = "ENDED")
  BY Stays, Moved
<1>2. Barred' = Barred \/ (m \in Barred /\ Barred' = Barred \ {m})
  BY Moved, SeatedAre
<1> QED BY <1>1, <1>2 DEF Stage!Readmit, Stage!svars, Holders, Mics, Muted

StageStep == Stage!StageNext \/ UNCHANGED Stage!svars

LEMMA CommitIsStep ==
    ASSUME Inv, NEW w \in Workers, Commit(w)
    PROVE  StageStep
<1> DEFINE t == task[w]
<1>1. PICK m : m = t.of
  OBVIOUS
<1>2. PICK n : n = Written(t)
  OBVIOUS
<1> DEFINE now == member[m]
<1>3. /\ t.act \notin {"idle", "end"} /\ t.act \in Acts /\ t.row.role # "NONE"
      /\ status = "LIVE" /\ m \in Users /\ Admitted(t.act, t.row) /\ Follows(t.row, now)
  BY <1>1, Records DEF Commit, Inv, TypeOK, TaskIsSound, Admitted
<1>4. m \in Members /\ m # Owner /\ now \in Member
  BY <1>3, PeopleAssumption DEF Inv, TypeOK, Members
<1>5. n \in Member
  BY <1>1, <1>2, <1>3, WrittenIsSound DEF Becomes
<1>6. Writes(m, n)
  BY <1>1, <1>2 DEF Commit, Writes
<1>7. n = CASE TakesSeat(t) ->
                 [now EXCEPT !.seat = t.seat, !.role = roleOnStage(t.row.role),
                             !.micMuted = TRUE, !.muted = FALSE]
            [] t.act = "demote" -> [OffStage(now, t.row.role) EXCEPT !.muted = FALSE]
            [] t.act = "mute" -> [now EXCEPT !.micMuted = TRUE, !.muted = TRUE]
            [] t.act = "unmute" -> [now EXCEPT !.muted = FALSE]
            [] t.act = "kick" -> [Visitor EXCEPT !.role = "LISTENER", !.kicked = TRUE]
            [] t.act = "ban" -> [Visitor EXCEPT !.role = "BANNED"]
            [] t.act = "unban" -> [now EXCEPT !.role = "LISTENER"]
            [] t.act = "make_moderator" -> [now EXCEPT !.role = "MODERATOR"]
            [] t.act = "remove_moderator" -> [now EXCEPT !.role = PlainRole(t)]
            [] t.act \in {"leave", "leaveStage"} /\ t.row.seat # Null ->
                 OffStage(now, t.row.role)
            [] OTHER -> now
  BY <1>1, <1>2 DEF Written
<1> HIDE DEF t
<1>8. CASE TakesSeat(t)
  <2>1. n = [now EXCEPT !.seat = t.seat, !.role = roleOnStage(t.row.role),
                        !.micMuted = TRUE, !.muted = FALSE]
    BY <1>7, <1>8 DEF TakesSeat, Seating
  <2>2. now.seat = Null /\ ~BarredRow(now) /\ t.row.role # "BANNED"
    BY <1>3, <1>8 DEF TakesSeat, Follows, Active, BarredRow
  <2>3. t.seat \in Seats \ Taken
    BY <1>8 DEF Inv, SeatIsFree, t
  <2>4. /\ n.seat = t.seat /\ n.micMuted /\ ~n.muted /\ n.kicked = now.kicked
        /\ n.role = roleOnStage(t.row.role)
    BY <2>1, <1>4 DEF Member
  <2>5. ~BarredRow(n)
    BY <2>2, <2>4 DEF BarredRow, roleOnStage
  <2>6. Stage!Take(m, n.seat)
    BY <1>3, <1>4, <1>5, <1>6, <2>2, <2>3, <2>4, <2>5, SitsDown
  <2>7. PICK s \in Seats : s = n.seat
    BY <2>3, <2>4
  <2> QED BY <1>4, <2>6, <2>7 DEF StageStep, Stage!StageNext
<1>9. CASE t.act = "demote" \/ (t.act \in {"leave", "leaveStage"} /\ t.row.seat # Null)
  <2>1. n \in {OffStage(now, t.row.role), [OffStage(now, t.row.role) EXCEPT !.muted = FALSE]}
    BY <1>7, <1>9 DEF TakesSeat, Seating
  <2>2. /\ n.seat = Null /\ n.micMuted /\ n.muted \in {now.muted, FALSE}
        /\ n.kicked = now.kicked /\ n.role = roleOffStage(t.row.role)
    BY <2>1, <1>4 DEF Member, OffStage
  <2>3. t.row.role \in StageRoles /\ now.role \in {t.row.role, roleOffStage(t.row.role)}
    BY <1>3, <1>9 DEF Admitted, Follows
  <2>4. BarredRow(n) <=> BarredRow(now)
    BY <2>2, <2>3 DEF BarredRow, roleOffStage, StageRoles
  <2>5. Stage!Leave(m) \/ Stage!Unsilence(m) \/ UNCHANGED Stage!svars
    BY <1>3, <1>4, <1>5, <1>6, <2>2, <2>4, StandsUp
  <2> QED BY <1>4, <2>5 DEF StageStep, Stage!StageNext
<1>10. CASE t.act \in {"kick", "ban"}
  <2>1. n \in {[Visitor EXCEPT !.role = "LISTENER", !.kicked = TRUE],
               [Visitor EXCEPT !.role = "BANNED"]}
    BY <1>7, <1>10 DEF TakesSeat, Seating
  <2>2. n.seat = Null /\ n.micMuted /\ ~n.muted /\ BarredRow(n)
    BY <2>1 DEF Visitor, BarredRow
  <2>3. Stage!Bar(m)
    BY <1>3, <1>4, <1>5, <1>6, <2>2, IsBarred
  <2> QED BY <1>4, <2>3 DEF StageStep, Stage!StageNext
<1>11. CASE t.act \in {"mute", "unmute"}
  <2>1. /\ t.act = "mute" => n = [now EXCEPT !.micMuted = TRUE, !.muted = TRUE]
        /\ t.act = "unmute" => n = [now EXCEPT !.muted = FALSE]
    <3>1. ~TakesSeat(t)
      BY <1>11 DEF TakesSeat, Seating
    <3>2. t.act = "mute" => n = [now EXCEPT !.micMuted = TRUE, !.muted = TRUE]
      BY <1>7, <3>1
    <3>3. t.act = "unmute" => n = [now EXCEPT !.muted = FALSE]
      BY <1>7, <3>1
    <3> QED BY <3>2, <3>3
  <2>2. /\ n.seat = now.seat /\ n.role = now.role /\ n.kicked = now.kicked
        /\ \/ n.muted /\ n.micMuted
           \/ ~n.muted /\ n.micMuted = now.micMuted
    <3>1. CASE n = [now EXCEPT !.micMuted = TRUE, !.muted = TRUE]
      <4>1. /\ n.seat = now.seat /\ n.role = now.role /\ n.kicked = now.kicked
            /\ n.muted = TRUE /\ n.micMuted = TRUE
        BY <3>1, <1>4 DEF Member
      <4> QED BY <4>1
    <3>2. CASE n = [now EXCEPT !.muted = FALSE]
      BY <3>2, <1>4 DEF Member
    <3> QED BY <2>1, <3>1, <3>2, <1>11
  <2>3. Stage!Silence(m) \/ Stage!Unsilence(m)
    BY <1>3, <1>4, <1>5, <1>6, <2>2, IsMuted DEF BarredRow
  <2> QED BY <1>4, <2>3 DEF StageStep, Stage!StageNext
<1>12. CASE /\ ~TakesSeat(t)
            /\ \/ t.act \in {"unban", "make_moderator", "remove_moderator", "request",
                             "accept", "reject", "promote"}
               \/ t.act \in {"leave", "leaveStage"} /\ t.row.seat = Null
  <2>1. \E r : \/ n = [now EXCEPT !.role = r] /\ r # "BANNED"
               \/ n = now
    BY <1>7, <1>12 DEF PlainRole
  <2>2. /\ n.seat = now.seat /\ n.micMuted = now.micMuted /\ n.muted = now.muted
        /\ BarredRow(n) => BarredRow(now)
    BY <2>1, <1>4 DEF Member, BarredRow
  <2>3. Stage!Readmit(m) \/ UNCHANGED Stage!svars
    BY <1>4, <1>5, <1>6, <2>2, MayReturn
  <2> QED BY <1>4, <2>3 DEF StageStep, Stage!StageNext
<1> QED BY <1>3, <1>8, <1>9, <1>10, <1>11, <1>12 DEF Acts

LEMMA EndIsStep ==
    ASSUME Inv, NEW w \in Workers, endCouncil(w)
    PROVE  Stage!Finish
<1>1. status = "LIVE" /\ status' = "ENDED"
  <2>1. TaskIsSound(task[w])
    BY DEF Inv
  <2>2. task[w].act = "end" /\ status' = "ENDED"
    BY Zenon DEF endCouncil
  <2> QED BY <2>1, <2>2 DEF TaskIsSound
<1>2. ASSUME NEW m \in Members
      PROVE  /\ member'[m].seat = Null /\ member'[m].micMuted
             /\ member'[m].role = member[m].role /\ member'[m].kicked = member[m].kicked
             /\ member'[m].muted = member[m].muted
  <2>1. member' = [o \in Members |-> IF o \in OnStage
                                     THEN [member[o] EXCEPT !.seat = Null, !.micMuted = TRUE]
                                     ELSE member[o]]
    BY Zenon DEF endCouncil
  <2>2. member[m] \in Member /\ (member[m].seat = Null => member[m].micMuted)
    BY DEF Inv, TypeOK, MutedIsSilent
  <2>3. CASE m \in OnStage
    <3>1. member'[m] = [member[m] EXCEPT !.seat = Null, !.micMuted = TRUE]
      BY <2>1, <2>3, Zenon
    <3> QED BY <3>1, <2>2 DEF Member
  <2>4. CASE m \notin OnStage
    <3>1. member'[m] = member[m]
      BY <2>1, <2>4, Zenon
    <3> QED BY <3>1, <2>2, <2>4 DEF OnStage
  <2> QED BY <2>3, <2>4
<1>3. Holders' = [s \in Seats |-> {}]
  BY <1>2, SeatsAreNumbers DEF Holders, OnStageAt
<1>4. Mics' = {} /\ Muted' = Muted
  BY <1>2 DEF Mics, Muted
<1>5. Barred' = Barred
  BY <1>2 DEF Barred
<1> QED BY <1>1, <1>3, <1>4, <1>5 DEF Stage!Finish, Holders, Mics, Muted

LEMMA LocklessIsStep ==
    ASSUME Inv, NEW m \in Members,
           \/ m \in Users /\ (join(m) \/ KickEnds(m))
           \/ \E off \in BOOLEAN : setMic(m, off)
           \/ m \in Users /\ \E w \in Sweepers : sweepFrees(w, m)
    PROVE  StageStep
<1> DEFINE now == member[m]
<1>0. now \in Member
  BY DEF Inv, TypeOK
<1>1. CASE m \in Users /\ (join(m) \/ KickEnds(m))
  <2>1. PICK n : n = member'[m]
    OBVIOUS
  <2>2. Writes(m, n) /\ (n = [now EXCEPT !.role = "LISTENER"] \/ n = [now EXCEPT !.kicked = FALSE])
    BY <1>1, <2>1 DEF join, KickEnds, Writes, Inv, TypeOK
  <2>3. n \in Member
    BY <2>2, <1>0 DEF Member, Roles
  <2>4. /\ n.seat = now.seat /\ n.micMuted = now.micMuted /\ n.muted = now.muted
        /\ BarredRow(n) => BarredRow(now)
    BY <2>2, <1>0 DEF Member, BarredRow
  <2> QED BY <2>2, <2>3, <2>4, MayReturn DEF StageStep, Stage!StageNext
<1>2. ASSUME NEW off \in BOOLEAN, setMic(m, off)
      PROVE  StageStep
  <2>1. PICK n : n = [now EXCEPT !.micMuted = off]
    OBVIOUS
  <2>2. Writes(m, n) /\ now.seat # Null /\ (off \/ ~now.muted)
    BY <1>2, <2>1 DEF setMic, Opens, Writes
  <2>3. /\ n \in Member /\ n.seat = now.seat /\ n.role = now.role /\ n.kicked = now.kicked
        /\ n.micMuted = off /\ n.muted = now.muted
    BY <2>1, <1>0 DEF Member
  <2>4. Stage!Open(m) \/ Stage!Close(m)
    BY <2>2, <2>3, SwitchesMic DEF BarredRow
  <2> QED BY <2>4 DEF StageStep, Stage!StageNext
<1>3. ASSUME m \in Users, NEW w \in Sweepers, sweepFrees(w, m)
      PROVE  StageStep
  <2>1. PICK n : n = OffStage(now, seen[w][m])
    OBVIOUS
  <2>2. Writes(m, n) /\ now.seat # Null /\ seen[w][m] = now.role
    BY <1>3, <2>1 DEF sweepFrees, Writes, Inv, SweepIsFresh
  <2>3. /\ n \in Member /\ n.seat = Null /\ n.role = roleOffStage(now.role)
        /\ n.kicked = now.kicked /\ n.micMuted /\ n.muted = now.muted
    BY <2>1, <2>2, <1>0 DEF Member, OffStage, roleOffStage, Roles
  <2>4. BarredRow(n) <=> BarredRow(now)
    BY <2>3 DEF BarredRow, roleOffStage
  <2>5. m # Owner
    BY <1>3, PeopleAssumption
  <2>6. Stage!Leave(m) \/ Stage!Unsilence(m) \/ UNCHANGED Stage!svars
    BY <2>2, <2>3, <2>4, <2>5, StandsUp
  <2> QED BY <2>6 DEF StageStep, Stage!StageNext
<1> QED BY <1>1, <1>2, <1>3

LEMMA StageSteps ==
    ASSUME Inv, [Next]_vars
    PROVE  [Stage!StageNext]_(Stage!svars)
<1>1. ASSUME UNCHANGED <<status, member>> PROVE StageStep
  BY <1>1 DEF StageStep, Stage!svars, OnStageAt, Barred
<1>2. ASSUME NEW w \in Workers, Commit(w) \/ endCouncil(w) PROVE StageStep
  BY <1>2, CommitIsStep, EndIsStep DEF StageStep, Stage!StageNext
<1>3. ASSUME NEW m \in Users, join(m) \/ KickEnds(m) PROVE StageStep
  BY <1>3, LocklessIsStep DEF Members
<1>4. ASSUME NEW m \in Members, NEW off \in BOOLEAN, setMic(m, off) PROVE StageStep
  BY <1>4, LocklessIsStep
<1>5. ASSUME NEW m \in Users, NEW w \in Sweepers, sweepFrees(w, m) PROVE StageStep
  BY <1>5, LocklessIsStep DEF Members
<1>6. StageStep
  <2>1. \/ UNCHANGED <<status, member>>
        \/ \E w \in Workers : Commit(w) \/ endCouncil(w)
        \/ \E m \in Users : join(m) \/ KickEnds(m)
        \/ \E m \in Members, off \in BOOLEAN : setMic(m, off)
        \/ \E w \in Sweepers, m \in Users : sweepFrees(w, m)
    BY DEF Next, vars, Lock, LockToEnd, Rollback, cancelRequest, sweepReads, sweepStops
  <2> QED BY <2>1, <1>1, <1>2, <1>3, <1>4, <1>5
<1> QED BY <1>6 DEF StageStep

\* Requests under withCouncilLock, the microphone, the sweep, the end of a kick
\* and of the council implement the stage, for any number of people and seats.
THEOREM Refinement == Spec => ImplementsStage
<1>1. Init => Stage!StageInit
  <2> SUFFICES ASSUME Init PROVE Stage!StageInit
    OBVIOUS
  <2>1. /\ \A m \in Members :
             /\ member[m].seat = IF m = Owner THEN 0 ELSE Null
             /\ member[m].micMuted <=> m # Owner
             /\ member[m].role # "BANNED" /\ ~member[m].kicked /\ ~member[m].muted
        /\ status = "LIVE" /\ Owner \in Members
    <3>1. \A m \in Members : member[m] = IF m = Owner THEN Host ELSE Visitor
      BY DEF Init
    <3>2. /\ Visitor.seat = Null /\ Visitor.micMuted /\ Visitor.role = "NONE"
          /\ ~Visitor.kicked /\ ~Visitor.muted
      BY DEF Visitor
    <3>3. /\ Host.seat = 0 /\ ~Host.micMuted /\ Host.role = "OWNER"
          /\ ~Host.kicked /\ ~Host.muted
      BY DEF Host, Visitor
    <3> QED BY <3>1, <3>2, <3>3 DEF Init, Members
  <2>2. ASSUME NEW s \in Seats PROVE OnStageAt(s) = IF s = 0 THEN {Owner} ELSE {}
    BY <2>1, SeatsAreNumbers DEF OnStageAt
  <2>3. Mics = {Owner} /\ Muted = {}
    BY <2>1 DEF Mics, Muted
  <2>4. Barred = {}
    BY <2>1 DEF Barred
  <2> QED BY <2>1, <2>2, <2>3, <2>4 DEF Stage!StageInit, Mics, Muted
<1> QED BY <1>1, InvHolds, StageSteps, PTL DEF Spec, ImplementsStage, Stage!StageSpec
=============================================================================
