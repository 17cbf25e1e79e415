----------------------------- MODULE ReportsProofs -----------------------------
(***************************************************************************)
(* What the reports promise, for any devices, any errors, any grace and    *)
(* any number of changes of the house, of Alarm.com, of the store and of   *)
(* the process.                                                            *)
(*                                                                         *)
(* The invariant ReportsInvariant ties the rows to the flags they were     *)
(* written from: a row whose last write was not lost says what             *)
(* #isAuthRejected says (DeskSound), and a grace that runs has never less  *)
(* left than the silence still lacks.  Every operation of the signals is a *)
(* step from desk to desk, so each has one lemma: what it keeps            *)
(* (Carried), and what it adds.                                            *)
(***************************************************************************)
EXTENDS Reports, TLAPS

DeskType ==
  [timer : -1..Grace, confirmed : BOOLEAN, rejected : BOOLEAN, started : BOOLEAN,
   closed : BOOLEAN, written : [SignalNames -> RowValues], missed : SUBSET SignalNames,
   rows : [SignalNames -> RowValues]]

\* What this process wrote of a row is what the row says.
Mirrored(d) == \A s \in SignalNames : d.written[s] # "none" => d.rows[s] = d.written[s]

\* The row is on by a write of this process, and no later one was lost.
Told(d, signal) == signal \notin d.missed /\ d.written[signal] \notin {"none", "clear"}

\* What every desk satisfies.
DeskSound(d) ==
  /\ d \in DeskType
  /\ d.closed => d.timer = -1
  /\ d.rejected => d.timer = -1
  /\ Told(d, "auth-failed") => d.rejected
  /\ Told(d, "cloud-offline") => ~d.rejected
  /\ Mirrored(d)

SameFlags(d, e) ==
  /\ e.timer = d.timer /\ e.confirmed = d.confirmed /\ e.rejected = d.rejected
  /\ e.started = d.started /\ e.closed = d.closed

SameRow(d, e, signal) ==
  /\ e.written[signal] = d.written[signal] /\ e.rows[signal] = d.rows[signal]
  /\ signal \in e.missed <=> signal \in d.missed

SameRows(d, e) == e.written = d.written /\ e.rows = d.rows /\ e.missed = d.missed

\* e is d after a write of value to the row of signal.
Wrote(d, e, ok, signal, value) ==
  /\ e \in DeskType /\ Mirrored(e) /\ SameFlags(d, e)
  /\ \A s \in SignalNames : s # signal => SameRow(d, e, s)
  /\ signal \notin e.missed => e.written[signal] = value
  /\ ok => e.written[signal] = value
  /\ e.rows[signal] \in {d.rows[signal], value}

\* e is d after operations of the signals none of which is the grace's expiry.
Carried(d, e) ==
  /\ DeskSound(e) /\ e.closed = d.closed
  /\ e.timer \in {d.timer, -1, Grace}
  /\ e.rows["cloud-offline"] \in {d.rows["cloud-offline"], "clear"}

DeviceSignals == {"alarm-active", "smoke-active"}

\* The pages of the devices are as they were.
SameDevices(d, e) == \A s \in DeviceSignals : e.rows[s] = d.rows[s]
-----------------------------------------------------------------------------
(* The store.                                                              *)

LEMMA WriteWrites ==
  ASSUME NEW d, d \in DeskType, Mirrored(d),
         NEW ok \in BOOLEAN, NEW signal \in SignalNames, NEW value \in RowValues
  PROVE  Wrote(d, Write(d, ok, signal, value), ok, signal, value)
<1> DEFINE told == [d EXCEPT !.missed = Missed(d, ok, signal, value)]
<1>1. /\ told \in DeskType /\ SameFlags(d, told)
      /\ told.written = d.written /\ told.rows = d.rows
      /\ told.missed = Missed(d, ok, signal, value)
  BY DEF DeskType, SameFlags, Missed
<1>2. \A s \in SignalNames : s # signal => (s \in told.missed <=> s \in d.missed)
  BY <1>1 DEF Missed
<1>3. CASE d.written[signal] = value \/ ~ok
  <2>1. Write(d, ok, signal, value) = told
    BY <1>3 DEF Write
  <2>2. signal \notin told.missed => d.written[signal] = value
    BY <1>1, <1>3 DEF Missed, DeskType
  <2> HIDE DEF told
  <2> QED
    BY <1>1, <1>2, <1>3, <2>1, <2>2 DEF Wrote, Mirrored, SameRow
<1>4. CASE ~(d.written[signal] = value \/ ~ok)
  <2> DEFINE e == [told EXCEPT !.written[signal] = value, !.rows[signal] = value]
  <2>1. Write(d, ok, signal, value) = e
    BY <1>4 DEF Write
  <2> HIDE DEF told
  <2>2. /\ e \in DeskType /\ SameFlags(d, e) /\ e.missed = told.missed
        /\ e.written = [d.written EXCEPT ![signal] = value]
        /\ e.rows = [d.rows EXCEPT ![signal] = value]
    BY <1>1 DEF DeskType, SameFlags
  <2> HIDE DEF e
  <2>3. /\ e.written[signal] = value /\ e.rows[signal] = value
        /\ \A s \in SignalNames : s # signal =>
              e.written[s] = d.written[s] /\ e.rows[s] = d.rows[s]
    BY <2>2 DEF DeskType
  <2>4. Mirrored(e)
    BY <2>3 DEF Mirrored
  <2> QED
    BY <1>2, <2>1, <2>2, <2>3, <2>4 DEF Wrote, SameRow
<1> QED
  BY <1>3, <1>4
-----------------------------------------------------------------------------
(* The signals.                                                            *)

LEMMA CarriedOn ==
  ASSUME NEW d, NEW e, NEW f, Carried(d, e), Carried(e, f) PROVE Carried(d, f)
BY DEF Carried

LEMMA CarriedStill ==
  ASSUME NEW d, DeskSound(d) PROVE Carried(d, d) /\ SameDevices(d, d)
BY DEF Carried, SameDevices

LEMMA ArmOfflineGraceCarried ==
  ASSUME NEW d, DeskSound(d), ~d.closed, ~d.rejected
  PROVE  /\ Carried(d, ArmOfflineGrace(d)) /\ SameDevices(d, ArmOfflineGrace(d))
         /\ SameRows(d, ArmOfflineGrace(d))
<1> DEFINE armed == [d EXCEPT !.timer = Grace]
<1>1. Grace \in -1..Grace
  BY GraceAssumption
<1>2. armed \in DeskType /\ SameRows(d, armed) /\ armed.timer = Grace
      /\ armed.closed = d.closed /\ armed.rejected = d.rejected
  BY <1>1 DEF DeskSound, DeskType, SameRows
<1>3. ArmOfflineGrace(d) = d \/ ArmOfflineGrace(d) = armed
  BY DEF ArmOfflineGrace
<1> HIDE DEF armed
<1>4. Carried(d, armed) /\ SameDevices(d, armed)
  BY <1>2 DEF Carried, DeskSound, SameRows, SameDevices, Told, Mirrored
<1>5. SameRows(d, d)
  BY DEF SameRows
<1> QED
  BY <1>2, <1>3, <1>4, <1>5, CarriedStill

LEMMA NoteUnreachableCarried ==
  ASSUME NEW d, DeskSound(d)
  PROVE  Carried(d, NoteUnreachable(d)) /\ SameDevices(d, NoteUnreachable(d))
BY ArmOfflineGraceCarried, CarriedStill DEF NoteUnreachable

\* The flags once Alarm.com answered, with the sign-in refused or not.
Settled(d, s, refused) ==
  /\ s \in DeskType /\ SameRows(d, s) /\ s.timer = -1 /\ s.closed = d.closed
  /\ ~s.confirmed /\ s.rejected = refused

LEMMA SettledSettles ==
  ASSUME NEW d, d \in DeskType, NEW refused \in BOOLEAN
  PROVE  Settled(d, [d EXCEPT !.rejected = refused, !.confirmed = FALSE, !.timer = -1], refused)
<1> DEFINE a == [d EXCEPT !.rejected = refused]
           b == [a EXCEPT !.confirmed = FALSE]
           s == [b EXCEPT !.timer = -1]
<1>1. a \in DeskType /\ SameRows(d, a) /\ a.rejected = refused /\ a.closed = d.closed
  BY DEF DeskType, SameRows
<1> HIDE DEF a
<1>2. b \in DeskType /\ SameRows(a, b) /\ b.rejected = a.rejected /\ b.closed = a.closed
      /\ ~b.confirmed
  BY <1>1 DEF DeskType, SameRows
<1> HIDE DEF b
<1>3. -1 \in -1..Grace
  BY GraceAssumption
<1>4. s \in DeskType /\ SameRows(b, s) /\ s.rejected = b.rejected /\ s.closed = b.closed
      /\ s.confirmed = b.confirmed /\ s.timer = -1
  BY <1>2, <1>3 DEF DeskType, SameRows
<1> HIDE DEF s
<1>5. Settled(d, s, refused)
  BY <1>1, <1>2, <1>4 DEF Settled, SameRows
<1> QED
  BY <1>5 DEF s, b, a

AuthValues == {"clear", "rejected", "login-form"}

\* e is d after both account signals were written, auth-failed as value.
AccountTold(d, e, ok, value) ==
  /\ Carried(d, e) /\ SameDevices(d, e) /\ e.timer = -1
  /\ ok => e.rows["auth-failed"] = value /\ e.rows["cloud-offline"] = "clear"

\* auth-failed and cloud-offline written from the flags, and the grace stopped.
LEMMA AccountCarried ==
  ASSUME NEW d, DeskSound(d), NEW refused \in BOOLEAN, NEW s, Settled(d, s, refused),
         NEW ok \in BOOLEAN, NEW value \in AuthValues,
         refused <=> value # "clear"
  PROVE  AccountTold(d, WriteCloud(Write(s, ok, "auth-failed", value), ok), ok, value)
<1> DEFINE v == Write(s, ok, "auth-failed", value)
           e == Write(v, ok, "cloud-offline", "clear")
<1>1. {"auth-failed", "cloud-offline", "alarm-active", "smoke-active"} \subseteq SignalNames
      /\ value \in RowValues /\ value # "none" /\ "clear" \in RowValues
  BY DEF SignalNames, RowValues, AuthValues
<1>2. /\ s \in DeskType /\ SameRows(d, s) /\ s.timer = -1 /\ s.closed = d.closed
      /\ ~s.confirmed /\ s.rejected = refused /\ Mirrored(s)
  BY DEF DeskSound, Mirrored, SameRows, Settled
<1>3. Wrote(s, v, ok, "auth-failed", value)
  BY <1>1, <1>2, WriteWrites
<1> HIDE DEF v
<1>4. v \in DeskType /\ Mirrored(v) /\ ~v.confirmed
  BY <1>2, <1>3 DEF Wrote, SameFlags
<1>5. Wrote(v, e, ok, "cloud-offline", "clear")
  BY <1>1, <1>4, WriteWrites
<1>6. WriteCloud(v, ok) = e
  BY <1>4 DEF WriteCloud
<1> HIDE DEF e
<1>7. /\ SameRow(s, v, "cloud-offline") /\ SameRow(v, e, "auth-failed")
      /\ \A x \in DeviceSignals : SameRow(s, v, x) /\ SameRow(v, e, x)
  BY <1>1, <1>3, <1>5 DEF Wrote, DeviceSignals
<1>8. e.timer = -1 /\ e.closed = d.closed /\ e.rejected = refused
  BY <1>2, <1>3, <1>5 DEF Wrote, SameFlags
<1>9. SameDevices(d, e)
  BY <1>2, <1>7 DEF SameRow, SameDevices, SameRows
<1>10. Told(e, "auth-failed") => value # "clear"
  BY <1>3, <1>7 DEF Told, SameRow, Wrote
<1>11. ~Told(e, "cloud-offline")
  BY <1>5 DEF Told, Wrote
<1>12. e.rows["cloud-offline"] \in {d.rows["cloud-offline"], "clear"}
  BY <1>2, <1>5, <1>7 DEF Wrote, SameRow, SameRows
<1>13. DeskSound(e)
  BY <1>5, <1>8, <1>10, <1>11 DEF DeskSound, Wrote
<1>14. ok => e.rows["auth-failed"] = value /\ e.rows["cloud-offline"] = "clear"
  <2>1. ok => v.written["auth-failed"] = value /\ e.written["cloud-offline"] = "clear"
    BY <1>3, <1>5 DEF Wrote
  <2>2. ok => v.rows["auth-failed"] = value /\ e.rows["cloud-offline"] = "clear"
    BY <1>1, <1>4, <1>5, <2>1 DEF Wrote, Mirrored
  <2> QED
    BY <1>7, <2>2 DEF SameRow
<1> QED
  BY <1>6, <1>8, <1>9, <1>12, <1>13, <1>14 DEF Carried, AccountTold, v

LEMMA NoteReachedCarried ==
  ASSUME NEW d, DeskSound(d), NEW ok \in BOOLEAN
  PROVE  /\ Carried(d, NoteReached(d, ok)) /\ SameDevices(d, NoteReached(d, ok))
         /\ NoteReached(d, ok).timer = -1
         /\ ok /\ ~d.closed => /\ NoteReached(d, ok).rows["auth-failed"] = "clear"
                              /\ NoteReached(d, ok).rows["cloud-offline"] = "clear"
<1>1. CASE d.closed
  BY <1>1, CarriedStill DEF NoteReached, DeskSound
<1>2. CASE ~d.closed
  <2> DEFINE s == [d EXCEPT !.rejected = FALSE, !.confirmed = FALSE, !.timer = -1]
  <2>1. Settled(d, s, FALSE)
    BY SettledSettles DEF DeskSound
  <2> DEFINE e == WriteCloud(Write(s, ok, "auth-failed", "clear"), ok)
  <2>2. NoteReached(d, ok) = e
    BY <1>2 DEF NoteReached
  <2> HIDE DEF s
  <2>3. "clear" \in AuthValues
    BY DEF AuthValues
  <2>4. AccountTold(d, e, ok, "clear")
    BY <2>1, <2>3, AccountCarried
  <2> HIDE DEF e
  <2> QED
    BY <2>2, <2>4 DEF AccountTold
<1> QED
  BY <1>1, <1>2

LEMMA NoteSignInStoppedCarried ==
  ASSUME NEW d, DeskSound(d), NEW ok \in BOOLEAN, NEW failure \in {"rejected", "login-form"}
  PROVE  /\ Carried(d, NoteSignInStopped(d, ok, failure))
         /\ SameDevices(d, NoteSignInStopped(d, ok, failure))
<1>1. CASE d.closed
  BY <1>1, CarriedStill DEF NoteSignInStopped
<1>2. CASE ~d.closed
  <2> DEFINE s == [d EXCEPT !.rejected = TRUE, !.confirmed = FALSE, !.timer = -1]
  <2>1. Settled(d, s, TRUE)
    BY SettledSettles DEF DeskSound
  <2> DEFINE e == WriteCloud(Write(s, ok, "auth-failed", failure), ok)
  <2>2. NoteSignInStopped(d, ok, failure) = e
    BY <1>2 DEF NoteSignInStopped
  <2> HIDE DEF s
  <2>3. failure \in AuthValues /\ failure # "clear"
    BY DEF AuthValues
  <2>4. AccountTold(d, e, ok, failure)
    BY <2>1, <2>3, AccountCarried
  <2> HIDE DEF e
  <2> QED
    BY <2>2, <2>4 DEF AccountTold
<1> QED
  BY <1>1, <1>2

LEMMA SignalFailureCarried ==
  ASSUME NEW d, DeskSound(d), storeOk \in BOOLEAN, NEW error
  PROVE  /\ Carried(d, NoteSignalFailure(d, error))
         /\ SameDevices(d, NoteSignalFailure(d, error))
<1>1. SignalFailureFrom(error) \in {"none", "unreachable", "rejected", "login-form"}
  BY DEF SignalFailureFrom
<1> QED
  BY <1>1, CarriedStill, NoteUnreachableCarried, NoteSignInStoppedCarried
     DEF NoteSignalFailure

\* A row of the devices, of which the account's flags say nothing.
LEMMA ObserveCarried ==
  ASSUME NEW d, DeskSound(d), NEW ok \in BOOLEAN,
         NEW signal \in DeviceSignals, NEW seen \in {"active", "clear", "none"}
  PROVE  LET e == Observe(d, ok, signal, seen)
         IN  /\ Carried(d, e)
             /\ \A s \in DeviceSignals : s # signal => e.rows[s] = d.rows[s]
             /\ ok /\ seen # "none" => e.rows[signal] = seen
<1>1. CASE seen = "none"
  BY <1>1, CarriedStill DEF Observe
<1>2. CASE seen # "none"
  <2> DEFINE e == Write(d, ok, signal, seen)
  <2>1. /\ signal \in SignalNames /\ seen \in RowValues
        /\ {"auth-failed", "cloud-offline"} \cup DeviceSignals \subseteq SignalNames
        /\ {"auth-failed", "cloud-offline"} \cap DeviceSignals = {}
    BY <1>2 DEF SignalNames, RowValues, DeviceSignals
  <2>2. Wrote(d, e, ok, signal, seen)
    BY <2>1, WriteWrites DEF DeskSound
  <2>3. Observe(d, ok, signal, seen) = e
    BY <1>2 DEF Observe
  <2> HIDE DEF e
  <2>4. /\ SameRow(d, e, "auth-failed") /\ SameRow(d, e, "cloud-offline")
        /\ \A s \in DeviceSignals : s # signal => SameRow(d, e, s)
    BY <2>1, <2>2 DEF Wrote
  <2>5. e.timer = d.timer /\ e.closed = d.closed /\ e.rejected = d.rejected
    BY <2>2 DEF Wrote, SameFlags
  <2>6. /\ Told(e, "auth-failed") <=> Told(d, "auth-failed")
        /\ Told(e, "cloud-offline") <=> Told(d, "cloud-offline")
    BY <2>4 DEF Told, SameRow
  <2>7. DeskSound(e)
    BY <2>2, <2>5, <2>6 DEF DeskSound, Wrote
  <2>8. e.rows["cloud-offline"] = d.rows["cloud-offline"]
        /\ \A s \in DeviceSignals : s # signal => e.rows[s] = d.rows[s]
    BY <2>4 DEF SameRow
  <2>9. ok => e.rows[signal] = seen
    BY <1>2, <2>1, <2>2 DEF Wrote, Mirrored
  <2> QED
    BY <2>3, <2>5, <2>7, <2>8, <2>9 DEF Carried
<1> QED
  BY <1>1, <1>2

LEMMA NoteDevicesCarried ==
  ASSUME NEW d, DeskSound(d), NEW ok \in BOOLEAN,
         NEW alarm \in {"active", "clear", "none"}, NEW smoke \in {"active", "clear", "none"}
  PROVE  LET e == NoteDevices(d, ok, alarm, smoke)
         IN  /\ Carried(d, e)
             /\ ok /\ ~d.closed =>
                  /\ alarm # "none" => e.rows["alarm-active"] = alarm
                  /\ smoke # "none" => e.rows["smoke-active"] = smoke
<1>1. CASE d.closed
  BY <1>1, CarriedStill DEF NoteDevices
<1>2. CASE ~d.closed
  <2> DEFINE m == Observe(d, ok, "alarm-active", alarm)
             e == Observe(m, ok, "smoke-active", smoke)
  <2> USE DEF DeviceSignals
  <2>1. Carried(d, m) /\ (ok /\ alarm # "none" => m.rows["alarm-active"] = alarm)
    BY ObserveCarried
  <2> HIDE DEF m
  <2>2. DeskSound(m)
    BY <2>1 DEF Carried
  <2>3. /\ Carried(m, e) /\ e.rows["alarm-active"] = m.rows["alarm-active"]
        /\ ok /\ smoke # "none" => e.rows["smoke-active"] = smoke
    BY <2>2, ObserveCarried
  <2>4. NoteDevices(d, ok, alarm, smoke) = e
    BY <1>2 DEF NoteDevices, m
  <2> HIDE DEF e
  <2>5. Carried(d, e)
    BY <2>1, <2>3, CarriedOn
  <2> QED
    BY <2>1, <2>3, <2>4, <2>5
<1> QED
  BY <1>1, <1>2

\* The grace runs out: the only step that puts cloud-offline on.
LEMMA GraceExpiredSound ==
  ASSUME NEW d, DeskSound(d), NEW ok \in BOOLEAN, ~d.closed, ~d.rejected
  PROVE  /\ DeskSound(GraceExpired(d, ok)) /\ GraceExpired(d, ok).timer = -1
         /\ GraceExpired(d, ok).closed = d.closed
         /\ ok => GraceExpired(d, ok).rows["cloud-offline"] = "active"
<1> DEFINE f == [d EXCEPT !.timer = -1]
           s == [f EXCEPT !.confirmed = TRUE]
           e == Write(s, ok, "cloud-offline", "active")
<1>1. -1 \in -1..Grace
  BY GraceAssumption
<1>2. f \in DeskType /\ SameRows(d, f) /\ f.timer = -1 /\ f.closed = d.closed
      /\ f.rejected = d.rejected
  BY <1>1 DEF DeskSound, DeskType, SameRows
<1>3. GraceExpired(d, ok) = WriteCloud(s, ok)
  BY DEF GraceExpired
<1> HIDE DEF f
<1>4. s \in DeskType /\ SameRows(f, s) /\ s.timer = -1 /\ s.closed = d.closed
      /\ s.rejected = d.rejected /\ s.confirmed
  BY <1>2 DEF DeskType, SameRows
<1> HIDE DEF s
<1>5. WriteCloud(s, ok) = e
  BY <1>4 DEF WriteCloud
<1>6. Mirrored(s)
  BY <1>2, <1>4 DEF DeskSound, Mirrored, SameRows
<1>7. {"auth-failed", "cloud-offline"} \subseteq SignalNames /\ "active" \in RowValues
  BY DEF SignalNames, RowValues
<1>8. Wrote(s, e, ok, "cloud-offline", "active")
  BY <1>4, <1>6, <1>7, WriteWrites
<1> HIDE DEF e
<1>9. SameRow(s, e, "auth-failed")
  BY <1>7, <1>8 DEF Wrote
<1>10. e.timer = -1 /\ e.closed = d.closed /\ e.rejected = d.rejected
  BY <1>4, <1>8 DEF Wrote, SameFlags
<1>11. Told(e, "auth-failed") <=> Told(d, "auth-failed")
  BY <1>2, <1>4, <1>9 DEF Told, SameRow, SameRows
<1>12. DeskSound(e)
  BY <1>8, <1>10, <1>11 DEF DeskSound, Wrote
<1>13. ok => e.rows["cloud-offline"] = "active"
  BY <1>7, <1>8 DEF Wrote, Mirrored
<1> QED
  BY <1>3, <1>5, <1>10, <1>12, <1>13

LEMMA CloseSound ==
  ASSUME NEW d, DeskSound(d)
  PROVE  /\ DeskSound(Close(d)) /\ Close(d).timer = -1 /\ Close(d).rows = d.rows
<1> DEFINE e == [d EXCEPT !.closed = TRUE, !.timer = -1]
<1>1. -1 \in -1..Grace
  BY GraceAssumption
<1>2. e \in DeskType /\ SameRows(d, e) /\ e.timer = -1 /\ e.rejected = d.rejected
  BY <1>1 DEF DeskSound, DeskType, SameRows
<1>3. Close(d) = e
  BY DEF Close
<1> HIDE DEF e
<1>4. DeskSound(e)
  BY <1>2 DEF DeskSound, SameRows, Told, Mirrored
<1> QED
  BY <1>2, <1>3, <1>4 DEF SameRows

\* A process begins with the rows it finds, and the grace running.
LEMMA StartSound ==
  ASSUME NEW rows \in [SignalNames -> RowValues]
  PROVE  LET e == Start(NewDesk(rows))
         IN  /\ DeskSound(e) /\ ~e.closed /\ e.timer = Grace /\ e.rows = rows
<1> DEFINE n == NewDesk(rows)
           s == [n EXCEPT !.started = TRUE]
           e == ArmOfflineGrace(s)
<1>1. NoRows \in [SignalNames -> RowValues] /\ (\A x \in SignalNames : NoRows[x] = "none")
  BY DEF NoRows, RowValues
<1>2. -1 \in -1..Grace /\ {} \in SUBSET SignalNames /\ Grace # -1
  BY GraceAssumption
<1>3. /\ s \in DeskType /\ s.timer = -1 /\ s.written = NoRows /\ s.rows = rows
      /\ s.closed = FALSE /\ s.rejected = FALSE /\ s.confirmed = FALSE
  BY <1>1, <1>2 DEF NewDesk, DeskType
<1>4. Start(n) = e
  BY DEF Start, NewDesk
<1> HIDE DEF s
<1>5. {"auth-failed", "cloud-offline"} \subseteq SignalNames
  BY DEF SignalNames
<1>6. DeskSound(s)
  BY <1>1, <1>3, <1>5 DEF DeskSound, Told, Mirrored
<1>7. e = [s EXCEPT !.timer = Grace]
  BY <1>3 DEF ArmOfflineGrace
<1>8. Carried(s, e) /\ SameRows(s, e)
  BY <1>3, <1>6, ArmOfflineGraceCarried
<1>9. e.timer = Grace
  BY <1>3, <1>7 DEF DeskType
<1> HIDE DEF e
<1> QED
  BY <1>3, <1>4, <1>8, <1>9 DEF Carried, SameRows
-----------------------------------------------------------------------------
(* The reads.                                                              *)

Contexts == {"Poll failed", "Rediscovery failed", "Targeted refresh failed"}

LogType ==
  [failures : 0..Threshold, warned : BOOLEAN, last : (Contexts \X ErrorCodes) \cup {<<>>}]

\* What is left of the grace covers what the silence lacks of it.
GraceCovers(d, ticks) == d.timer # -1 => ticks + d.timer >= Grace

\* The inductive invariant.
ReportsInvariant ==
  /\ process \in {"starting", "running", "stopped", "down"}
  /\ known \in [Devices -> {"none", "calm", "active"}]
  /\ log \in LogType
  /\ storeOk \in BOOLEAN /\ silence \in 0..Grace /\ loud \in BOOLEAN
  /\ DeskSound(desk)
  /\ desk.closed => process = "down"
  /\ GraceCovers(desk, silence)
  /\ QuietOnlyIfSaid

\* The rows say what readings say, and that Alarm.com answers.
RowsSay(e, readings) ==
  LET shown(kind) == IF \E x \in kind : readings[x] = "active" THEN "active" ELSE "clear"
  IN  /\ e.rows["alarm-active"] = shown(Partitions) /\ e.rows["smoke-active"] = shown(Detectors)
      /\ e.rows["auth-failed"] = "clear" /\ e.rows["cloud-offline"] = "clear"

LEMMA RecordCarried ==
  ASSUME NEW d, DeskSound(d), storeOk \in BOOLEAN,
         NEW readings, NEW ids, NEW read, NEW reached \in BOOLEAN
  PROVE  LET e == RecordDeviceSignals(d, readings, ids, read, reached)
         IN  /\ Carried(d, e)
             /\ reached => e.timer = -1
             /\ storeOk /\ ~d.closed =>
                  /\ (\E x \in Partitions : readings[x] = "active")
                       => e.rows["alarm-active"] = "active"
                  /\ reached /\ ids \subseteq read => RowsSay(e, readings)
<1> DEFINE observed(kind) ==
             ObservedSignal(\E x \in kind : readings[x] = "active", ids \cap kind \subseteq read)
           shown(kind) == IF \E x \in kind : readings[x] = "active" THEN "active" ELSE "clear"
           noted == NoteDevices(d, storeOk, observed(Partitions), observed(Detectors))
           e == IF reached THEN NoteReached(noted, storeOk) ELSE noted
           alarm == observed(Partitions)
           smoke == observed(Detectors)
<1>1. /\ alarm \in {"active", "clear", "none"} /\ smoke \in {"active", "clear", "none"}
      /\ (\E x \in Partitions : readings[x] = "active") => alarm = "active"
  BY DEF ObservedSignal
<1>2. /\ ids \subseteq read => alarm = shown(Partitions) /\ smoke = shown(Detectors)
      /\ shown(Partitions) # "none" /\ shown(Detectors) # "none"
  BY DEF ObservedSignal
<1>3. RecordDeviceSignals(d, readings, ids, read, reached) = e
  BY DEF RecordDeviceSignals
<1>4. noted = NoteDevices(d, storeOk, alarm, smoke)
  OBVIOUS
<1> HIDE DEF alarm, smoke, noted, shown
<1>5. /\ Carried(d, noted)
      /\ storeOk /\ ~d.closed =>
           /\ alarm # "none" => noted.rows["alarm-active"] = alarm
           /\ smoke # "none" => noted.rows["smoke-active"] = smoke
  BY <1>1, <1>4, NoteDevicesCarried
<1>6. DeskSound(noted) /\ noted.closed = d.closed
  BY <1>5 DEF Carried
<1>7. CASE reached
  <2>1. /\ Carried(noted, e) /\ SameDevices(noted, e) /\ e.timer = -1
        /\ storeOk /\ ~d.closed =>
             e.rows["auth-failed"] = "clear" /\ e.rows["cloud-offline"] = "clear"
    BY <1>6, <1>7, NoteReachedCarried
  <2> HIDE DEF e
  <2>2. Carried(d, e)
    BY <1>5, <2>1, CarriedOn
  <2>3. /\ e.rows["alarm-active"] = noted.rows["alarm-active"]
        /\ e.rows["smoke-active"] = noted.rows["smoke-active"]
    BY <2>1 DEF SameDevices, DeviceSignals
  <2>4. storeOk /\ ~d.closed =>
          /\ (\E x \in Partitions : readings[x] = "active") => e.rows["alarm-active"] = "active"
          /\ ids \subseteq read => /\ e.rows["alarm-active"] = shown(Partitions)
                                 /\ e.rows["smoke-active"] = shown(Detectors)
    BY <1>1, <1>2, <1>5, <2>3
  <2>5. storeOk /\ ~d.closed /\ ids \subseteq read => RowsSay(e, readings)
    BY <2>1, <2>4 DEF RowsSay, shown
  <2> QED
    BY <1>3, <2>1, <2>2, <2>4, <2>5
<1>8. CASE ~reached
  BY <1>1, <1>3, <1>5, <1>8
<1> QED
  BY <1>7, <1>8

LEMMA AnsweredReaches ==
  ASSUME NEW ids, NEW at, Answered(ids, at) PROVE at # "partitions"
BY DEF Answered

\* A grace that was running, was armed afresh or is off covers the silence, which an
\* answer ends only once the signals were told of it.
LEMMA StillCovers ==
  ASSUME NEW d, DeskSound(d), NEW e, Carried(d, e), NEW ticks \in 0..Grace, GraceCovers(d, ticks)
  PROVE  GraceCovers(e, ticks)
BY GraceAssumption DEF Carried, GraceCovers, DeskSound, DeskType

LEMMA CoversAfresh ==
  ASSUME NEW d, DeskSound(d), d.timer = -1, NEW e, Carried(d, e)
  PROVE  GraceCovers(e, 0)
BY GraceAssumption DEF Carried, GraceCovers, DeskSound, DeskType

\* What a read does to the desk, the handlers and the silence.
LEMMA RecordedKeeps ==
  ASSUME ReportsInvariant, NEW ids, NEW o, Recorded(ids, o)
  PROVE  /\ known' \in [Devices -> {"none", "calm", "active"}]
         /\ Carried(desk, desk') /\ silence' \in 0..Grace /\ GraceCovers(desk', silence')
         /\ storeOk /\ ~desk.closed /\ (\E p \in Partitions : known'[p] = "active")
              => desk'.rows["alarm-active"] = "active"
         /\ storeOk /\ ~desk.closed /\ o.at = "none" /\ ids \subseteq o.got
              => RowsSay(desk', known')
<1> DEFINE read == Read(ids, o.got, o.at)
           readings == [x \in Devices |-> IF x \in read THEN Seen(x) ELSE known[x]]
           reached == o.at # "partitions"
           recorded == RecordDeviceSignals(desk, readings, ids, read, reached)
           e == IF o.at = "none" THEN recorded ELSE NoteSignalFailure(recorded, o.error)
<1>1. /\ known' = readings /\ desk' = e
      /\ silence' = IF Answered(ids, o.at) THEN 0 ELSE silence
  BY DEF Recorded
<1>2. DeskSound(desk) /\ storeOk \in BOOLEAN /\ silence \in 0..Grace
      /\ GraceCovers(desk, silence) /\ known \in [Devices -> {"none", "calm", "active"}]
  BY DEF ReportsInvariant
<1>3. readings \in [Devices -> {"none", "calm", "active"}]
  BY <1>2 DEF Seen
<1>4. reached \in BOOLEAN /\ (o.at = "none" => reached /\ read = o.got)
  BY DEF Read
<1> HIDE DEF read, readings, reached
<1>5. /\ Carried(desk, recorded)
      /\ reached => recorded.timer = -1
      /\ storeOk /\ ~desk.closed =>
           /\ (\E p \in Partitions : readings[p] = "active")
                => recorded.rows["alarm-active"] = "active"
           /\ reached /\ ids \subseteq read => RowsSay(recorded, readings)
  BY <1>2, <1>4, RecordCarried
<1> HIDE DEF recorded
<1>6. DeskSound(recorded)
  BY <1>5 DEF Carried
<1>7. Carried(recorded, e) /\ SameDevices(recorded, e)
  BY <1>2, <1>6, CarriedStill, SignalFailureCarried
<1>8. /\ storeOk /\ ~desk.closed /\ (\E p \in Partitions : readings[p] = "active")
           => e.rows["alarm-active"] = "active"
      /\ storeOk /\ ~desk.closed /\ o.at = "none" /\ ids \subseteq o.got
           => RowsSay(e, readings)
  <2>1. e.rows["alarm-active"] = recorded.rows["alarm-active"]
    BY <1>7 DEF SameDevices, DeviceSignals
  <2> QED
    BY <1>4, <1>5, <2>1
<1> HIDE DEF e
<1>9. Carried(desk, e)
  BY <1>5, <1>7, CarriedOn
<1>10. CASE Answered(ids, o.at)
  <2>1. reached
    BY <1>10, AnsweredReaches DEF reached
  <2>2. GraceCovers(e, 0)
    BY <1>5, <1>6, <1>7, <2>1, CoversAfresh
  <2>3. 0 \in 0..Grace
    BY GraceAssumption
  <2> QED
    BY <1>1, <1>3, <1>8, <1>9, <1>10, <2>2, <2>3
<1>11. CASE ~Answered(ids, o.at)
  <2>1. GraceCovers(e, silence)
    BY <1>2, <1>9, StillCovers
  <2> QED
    BY <1>1, <1>2, <1>3, <1>8, <1>9, <1>11, <2>1
<1> QED
  BY <1>10, <1>11

LEMMA ListFailsKeeps ==
  ASSUME ReportsInvariant, NEW error, ListFails(error)
  PROVE  /\ Carried(desk, desk') /\ GraceCovers(desk', silence)
         /\ known' = known /\ silence' = silence
<1>1. Carried(desk, desk')
  BY SignalFailureCarried DEF ReportsInvariant, ListFails
<1> QED
  BY <1>1, StillCovers DEF ReportsInvariant, ListFails
-----------------------------------------------------------------------------
(* The log.                                                                *)

LEMMA NoLogType == NoLog \in LogType /\ NoLog.last = <<>>
<1>1. 0 \in 0..Threshold
  BY ReportsAssumption
<1> QED
  BY <1>1 DEF NoLog, LogType

LEMMA SuccessQuiets ==
  ASSUME ReportSuccess
  PROVE  log' \in LogType /\ loud' \in BOOLEAN /\ QuietOnlyIfSaid'
BY NoLogType DEF ReportSuccess, QuietOnlyIfSaid

LEMMA FailureSaid ==
  ASSUME ReportsInvariant, NEW context \in Contexts, NEW error \in ErrorCodes,
         ReportFailure(<<context, error>>)
  PROVE  log' \in LogType /\ loud' \in BOOLEAN /\ QuietOnlyIfSaid'
<1> DEFINE problem == <<context, error>>
<1>1. log \in LogType /\ loud \in BOOLEAN /\ (log.last # <<>> => loud)
  BY DEF ReportsInvariant, QuietOnlyIfSaid
<1>2. problem \in Contexts \X ErrorCodes /\ problem[2] = error
  OBVIOUS
<1> HIDE DEF problem
<1>3. CASE FailureLogLevel(error) = "error"
  <2>1. log' = [log EXCEPT !.last = problem] /\ loud' = (loud \/ problem # log.last)
    BY <1>2, <1>3 DEF ReportFailure, problem
  <2>2. log' \in LogType /\ log'.last = problem
    BY <1>1, <1>2, <2>1 DEF LogType
  <2> QED
    BY <1>1, <2>1, <2>2 DEF QuietOnlyIfSaid
<1>4. CASE FailureLogLevel(error) # "error"
  <2> DEFINE n == Least(log.failures + 1, Threshold)
             w == log.warned \/ log.failures + 1 >= Threshold
  <2>1. log' = [log EXCEPT !.failures = n, !.warned = w] /\ loud' = loud
    BY <1>2, <1>4 DEF ReportFailure, problem
  <2>2. n \in 0..Threshold /\ w \in BOOLEAN
    BY <1>1, ReportsAssumption DEF LogType, Least
  <2> HIDE DEF n, w
  <2>3. log' \in LogType /\ log'.last = log.last
    BY <1>1, <2>1, <2>2 DEF LogType
  <2> QED
    BY <1>1, <2>1, <2>3 DEF QuietOnlyIfSaid
<1> QED
  BY <1>3, <1>4
-----------------------------------------------------------------------------
(* The steps.                                                              *)

LEMMA SameLog ==
  ASSUME ReportsInvariant, log' = log, loud' = loud
  PROVE  log' \in LogType /\ loud' \in BOOLEAN /\ QuietOnlyIfSaid'
BY DEF ReportsInvariant, QuietOnlyIfSaid

LEMMA OutcomeErrors ==
  ASSUME NEW ids, NEW o \in Outcomes(ids)
  PROVE  o.at # "none" => o.error \in ErrorCodes
BY ReportsAssumption DEF Outcomes, Outcome

\* A read, of whatever context.
LEMMA ReadsKeep ==
  ASSUME ReportsInvariant, NEW context \in Contexts, NEW ids, Reads(context, ids)
  PROVE  \E o \in Outcomes(ids) :
           /\ Recorded(ids, o)
           /\ log' \in LogType /\ loud' \in BOOLEAN /\ QuietOnlyIfSaid'
<1>1. PICK o \in Outcomes(ids) :
        /\ Recorded(ids, o)
        /\ \/ o.at # "none" /\ ReportFailure(<<context, o.error>>)
           \/ ReportSuccess
           \/ UNCHANGED <<log, loud>>
  BY DEF Reads
<1>2. log' \in LogType /\ loud' \in BOOLEAN /\ QuietOnlyIfSaid'
  BY <1>1, OutcomeErrors, SuccessQuiets, FailureSaid, SameLog
<1> QED
  BY <1>1, <1>2

\* A desk that was carried and covers the silence keeps the invariant.
LEMMA CarriedKeeps ==
  ASSUME ReportsInvariant, Carried(desk, desk'), GraceCovers(desk', silence'),
         silence' \in 0..Grace, known' \in [Devices -> {"none", "calm", "active"}],
         log' \in LogType, loud' \in BOOLEAN, QuietOnlyIfSaid', storeOk' = storeOk,
         process' \in {"starting", "running", "stopped", "down"},
         process' = "down" <=> process = "down"
  PROVE  ReportsInvariant'
BY DEF ReportsInvariant, Carried

\* The three kinds of step: a read or a list, a change outside, and the rest.
Reading == StartupDiscovery \/ Poll \/ Rediscovery \/ TargetedRefresh
Outside == HouseChanges \/ ServiceChanges \/ StoreChanges

\* Every read, and every list that cannot be had, carries the desk.
LEMMA ReadingCarries ==
  ASSUME ReportsInvariant, Reading
  PROVE  /\ ~desk.closed /\ storeOk' = storeOk
         /\ Carried(desk, desk') /\ silence' \in 0..Grace /\ GraceCovers(desk', silence')
         /\ known' \in [Devices -> {"none", "calm", "active"}]
         /\ storeOk /\ known' # known /\ (\E p \in Partitions : known'[p] = "active")
              => desk'.rows["alarm-active"] = "active"
         /\ log' \in LogType /\ loud' \in BOOLEAN /\ QuietOnlyIfSaid'
         /\ process # "down" /\ process' \in {"starting", "running", "stopped"}
<1>1. silence \in 0..Grace /\ known \in [Devices -> {"none", "calm", "active"}]
      /\ (desk.closed => process = "down")
  BY DEF ReportsInvariant
<1>2. CASE StartupDiscovery
  <2>1. ~desk.closed /\ storeOk' = storeOk /\ process = "starting"
        /\ process' \in {"starting", "running", "stopped"}
    BY <1>1, <1>2 DEF StartupDiscovery, outside, AfterStartup
  <2>2. log' \in LogType /\ loud' \in BOOLEAN /\ QuietOnlyIfSaid'
    BY <1>2, SameLog DEF StartupDiscovery
  <2>3. \/ \E o \in Outcomes(Devices) : Recorded(Devices, o)
        \/ \E e \in ListErrors : ListFails(e)
    BY <1>2 DEF StartupDiscovery
  <2> QED
    BY <1>1, <2>1, <2>2, <2>3, RecordedKeeps, ListFailsKeeps
<1>3. CASE Poll \/ TargetedRefresh
  <2>1. ~desk.closed /\ storeOk' = storeOk /\ process = "running" /\ process' = "running"
    BY <1>1, <1>3 DEF Poll, TargetedRefresh, outside
  <2>2. PICK context \in Contexts, ids \in SUBSET Handled : Reads(context, ids)
    BY <1>3 DEF Poll, TargetedRefresh, Contexts
  <2> QED
    BY <2>1, <2>2, ReadsKeep, RecordedKeeps
<1>4. CASE Rediscovery
  <2>1. ~desk.closed /\ storeOk' = storeOk /\ process = "running" /\ process' = "running"
    BY <1>1, <1>4 DEF Rediscovery, outside
  <2>2. "Rediscovery failed" \in Contexts
    BY DEF Contexts
  <2>3. CASE Reads("Rediscovery failed", Devices)
    BY <2>1, <2>2, <2>3, ReadsKeep, RecordedKeeps
  <2>4. CASE \E e \in ListErrors : ListFails(e) /\ ReportFailure(<<"Rediscovery failed", e>>)
    <3>1. PICK e \in ListErrors : ListFails(e) /\ ReportFailure(<<"Rediscovery failed", e>>)
      BY <2>4
    <3>2. e \in ErrorCodes
      BY ReportsAssumption DEF ListErrors
    <3> QED
      BY <1>1, <2>1, <2>2, <3>1, <3>2, FailureSaid, ListFailsKeeps
  <2> QED
    BY <1>4, <2>3, <2>4 DEF Rediscovery
<1> QED
  BY <1>2, <1>3, <1>4 DEF Reading

LEMMA InvariantStarts == Init => ReportsInvariant
<1> SUFFICES ASSUME Init PROVE ReportsInvariant
  OBVIOUS
<1>1. NoRows \in [SignalNames -> RowValues]
  BY DEF NoRows, RowValues
<1>2. DeskSound(desk) /\ ~desk.closed /\ desk.timer = Grace
  BY <1>1, StartSound DEF Init
<1>3. known \in [Devices -> {"none", "calm", "active"}]
  BY DEF Init
<1>4. 0 \in 0..Grace /\ GraceCovers(desk, 0)
  BY <1>2, GraceAssumption DEF GraceCovers
<1> QED
  BY <1>2, <1>3, <1>4, NoLogType DEF Init, ReportsInvariant, QuietOnlyIfSaid

LEMMA InvariantKept == ReportsInvariant /\ [Next]_vars => ReportsInvariant'
<1> SUFFICES ASSUME ReportsInvariant, [Next]_vars PROVE ReportsInvariant'
  OBVIOUS
<1>1. /\ process \in {"starting", "running", "stopped", "down"}
      /\ known \in [Devices -> {"none", "calm", "active"}]
      /\ silence \in 0..Grace /\ DeskSound(desk) /\ GraceCovers(desk, silence)
      /\ (desk.closed => process = "down") /\ storeOk \in BOOLEAN
  BY DEF ReportsInvariant
<1>2. desk.timer \in -1..Grace /\ (desk.closed \/ desk.rejected => desk.timer = -1)
  BY <1>1 DEF DeskSound, DeskType
<1>3. CASE Reading
  BY <1>3, ReadingCarries, CarriedKeeps
<1>4. CASE GraceTimer
  <2>1. ~desk.closed /\ ~desk.rejected
    BY <1>2, <1>4 DEF GraceTimer
  <2>2. DeskSound(desk') /\ desk'.timer = -1 /\ desk'.closed = desk.closed
    BY <1>1, <1>4, <2>1, GraceExpiredSound DEF GraceTimer
  <2>3. GraceCovers(desk', silence)
    BY <2>2 DEF GraceCovers
  <2>4. log' \in LogType /\ loud' \in BOOLEAN /\ QuietOnlyIfSaid'
    BY <1>4, SameLog DEF GraceTimer
  <2> QED
    BY <1>1, <1>4, <2>1, <2>2, <2>3, <2>4 DEF GraceTimer, outside, ReportsInvariant
<1>5. CASE Shutdown
  <2>1. DeskSound(desk') /\ desk'.timer = -1
    BY <1>1, <1>5, CloseSound DEF Shutdown
  <2>2. GraceCovers(desk', silence)
    BY <2>1 DEF GraceCovers
  <2>3. log' \in LogType /\ loud' \in BOOLEAN /\ QuietOnlyIfSaid'
    BY <1>5, SameLog DEF Shutdown
  <2> QED
    BY <1>1, <1>5, <2>1, <2>2, <2>3 DEF Shutdown, outside, ReportsInvariant
<1>6. CASE Restart
  <2>1. desk.rows \in [SignalNames -> RowValues]
    BY <1>1 DEF DeskSound, DeskType
  <2>2. DeskSound(desk') /\ ~desk'.closed /\ desk'.timer = Grace
    BY <1>6, <2>1, StartSound DEF Restart
  <2>3. 0 \in 0..Grace /\ GraceCovers(desk', 0)
    BY <2>2, GraceAssumption DEF GraceCovers
  <2>4. known' \in [Devices -> {"none", "calm", "active"}]
    BY <1>6 DEF Restart
  <2>5. log' \in LogType /\ loud' = FALSE /\ QuietOnlyIfSaid'
    BY <1>6, NoLogType DEF Restart, QuietOnlyIfSaid
  <2> QED
    BY <1>1, <1>6, <2>2, <2>3, <2>4, <2>5 DEF Restart, ReportsInvariant
<1>7. CASE Tick
  <2> DEFINE left == IF desk.timer > 0 THEN desk.timer - 1 ELSE desk.timer
  <2>1. desk' = [desk EXCEPT !.timer = left] /\ silence' = Least(silence + 1, Grace)
    BY <1>7 DEF Tick
  <2>2. /\ left \in -1..Grace /\ (desk.timer = -1 => left = -1)
        /\ silence' \in 0..Grace
        /\ left # -1 => silence' + left >= Grace
    BY <1>1, <1>2, <1>7, <2>1, GraceAssumption DEF Tick, Least, GraceCovers
  <2> HIDE DEF left
  <2>3. desk' \in DeskType /\ SameRows(desk, desk') /\ desk'.timer = left
        /\ desk'.closed = desk.closed /\ desk'.rejected = desk.rejected
    BY <1>1, <2>1, <2>2 DEF DeskSound, DeskType, SameRows
  <2>4. DeskSound(desk')
    BY <1>1, <2>2, <2>3 DEF DeskSound, SameRows, Told, Mirrored
  <2>5. GraceCovers(desk', silence')
    BY <2>2, <2>3 DEF GraceCovers
  <2>6. log' \in LogType /\ loud' \in BOOLEAN /\ QuietOnlyIfSaid'
    BY <1>7, SameLog DEF Tick
  <2> QED
    BY <1>1, <1>7, <2>2, <2>3, <2>4, <2>5, <2>6 DEF Tick, outside, ReportsInvariant
<1>8. CASE Outside \/ UNCHANGED vars
  <2>1. /\ process' = process /\ known' = known /\ desk' = desk /\ silence' = silence
        /\ log' = log /\ loud' = loud /\ storeOk' \in BOOLEAN
    BY <1>1, <1>8 DEF Outside, HouseChanges, ServiceChanges, StoreChanges, vars, outside
  <2>2. log' \in LogType /\ loud' \in BOOLEAN /\ QuietOnlyIfSaid'
    BY <2>1, SameLog
  <2> QED
    BY <1>1, <2>1, <2>2 DEF ReportsInvariant
<1> QED
  BY <1>3, <1>4, <1>5, <1>6, <1>7, <1>8 DEF Next, Reading, Outside
-----------------------------------------------------------------------------
(* The theorems.                                                           *)

LEMMA ReportsInvariantHolds == Spec => []ReportsInvariant
BY InvariantStarts, InvariantKept, PTL DEF Spec

\* Two pages that are both this process's last word contradict each other on
\* #isAuthRejected.
LEMMA OnePage ==
  ASSUME DeskSound(desk) PROVE OneCauseOnePage
<1>1. Pages("auth-failed") /\ Current("auth-failed") => desk.rejected
  BY DEF DeskSound, Pages, Current, Told
<1>2. Pages("cloud-offline") /\ Current("cloud-offline") => ~desk.rejected
  BY DEF DeskSound, Pages, Current, Told
<1> QED
  BY <1>1, <1>2 DEF OneCauseOnePage

\* Reports: the state is well-typed; offline and rejected are never both paged unless
\* the last write of one was lost, or is an earlier process's; and a failure is kept quiet
\* only if one was logged as an error since Alarm.com last worked.
THEOREM ReportsAreSound == Spec => []ReportsSound
<1>1. ReportsInvariant => ReportsSound
  <2> SUFFICES ASSUME ReportsInvariant PROVE ReportsSound
    OBVIOUS
  <2>1. desk \in DeskType /\ (desk.closed => desk.timer = -1)
    BY DEF ReportsInvariant, DeskSound
  <2>2. desk.timer \in -1..Grace /\ desk.rows \in [SignalNames -> RowValues]
    BY <2>1 DEF DeskType
  <2>3. log.failures \in 0..Threshold
    BY DEF ReportsInvariant, LogType
  <2>4. ReportsTypeOK
    BY <2>1, <2>2, <2>3 DEF ReportsTypeOK, ReportsInvariant
  <2> QED
    BY <2>4, OnePage DEF ReportsInvariant, ReportsSound
<1> QED
  BY <1>1, ReportsInvariantHolds, PTL

\* A step that puts cloud-offline on is the expiry of a grace that covered the silence.
LEMMA OutageStep ==
  ASSUME ReportsInvariant, [Next]_vars, ~Pages("cloud-offline"), Pages("cloud-offline")'
  PROVE  silence >= Grace
<1>1. CASE Reading
  <2>1. Carried(desk, desk')
    BY <1>1, ReadingCarries
  <2> QED
    BY <2>1 DEF Carried, Pages
<1>2. CASE GraceTimer
  BY <1>2, GraceAssumption DEF GraceTimer, ReportsInvariant, GraceCovers
<1>3. CASE Restart
  <2>1. desk.rows \in [SignalNames -> RowValues]
    BY DEF ReportsInvariant, DeskSound, DeskType
  <2>2. desk'.rows = desk.rows
    BY <1>3, <2>1, StartSound DEF Restart
  <2> QED
    BY <2>2 DEF Pages
<1>4. CASE Shutdown
  BY <1>4, CloseSound DEF Shutdown, Pages, ReportsInvariant
<1>5. CASE Tick
  BY <1>5 DEF Tick, Pages, ReportsInvariant, DeskSound, DeskType
<1>6. CASE Outside \/ UNCHANGED vars
  <2>1. desk' = desk
    BY <1>6 DEF Outside, HouseChanges, ServiceChanges, StoreChanges, vars
  <2> QED
    BY <2>1 DEF Pages
<1> QED
  BY <1>1, <1>2, <1>3, <1>4, <1>5, <1>6 DEF Next, Reading, Outside

\* cloud-offline goes on only by the grace's expiry, and that no earlier than a whole grace
\* of silence: no failed poll, refused sign-in, restart or lost write pages it sooner.
THEOREM OfflineOnlyAfterGrace == Spec => OfflineAfterGrace
<1>1. ReportsInvariant /\ [Next]_vars =>
        [~Pages("cloud-offline") /\ Pages("cloud-offline")' => silence >= Grace]_vars
  BY OutageStep
<1> QED
  BY <1>1, ReportsInvariantHolds, PTL DEF Spec, OfflineAfterGrace

\* A step that shows a partition in alarm is a read, and the read pages it.
LEMMA AlarmStep ==
  ASSUME ReportsInvariant, [Next]_vars, storeOk, known' # known,
         NEW p \in Partitions, known'[p] = "active"
  PROVE  Pages("alarm-active")'
<1>1. CASE Reading
  <2>1. desk'.rows["alarm-active"] = "active"
    BY <1>1, ReadingCarries
  <2> QED
    BY <2>1 DEF Pages
<1>2. CASE Restart
  BY <1>2 DEF Restart, Devices
<1>3. CASE GraceTimer \/ Shutdown \/ Tick \/ Outside \/ UNCHANGED vars
  BY <1>3 DEF GraceTimer, Shutdown, Tick, Outside, HouseChanges, ServiceChanges,
              StoreChanges, vars
<1> QED
  BY <1>1, <1>2, <1>3 DEF Next, Reading, Outside

\* Whichever read finds a partition in alarm, and however it ends, the page is on in the
\* step that shows the alarm.
THEOREM SeenAlarmsArePaged == Spec => SeenAlarmPages
<1>1. ReportsInvariant /\ [Next]_vars =>
        [storeOk /\ known' # known /\ (\E p \in Partitions : known'[p] = "active")
           => Pages("alarm-active")']_vars
  BY AlarmStep
<1> QED
  BY <1>1, ReportsInvariantHolds, PTL DEF Spec, SeenAlarmPages

\* A read of everything while Alarm.com is well has one outcome.
LEMMA WholeRead ==
  ASSUME ReportsInvariant, service = "well", storeOk, ~desk.closed, active' = active,
         NEW o \in Outcomes(Devices), Recorded(Devices, o)
  PROVE  RowsTrue'
<1>1. o = Outcome(Devices, "none", "none")
  BY DEF Outcomes
<1>2. o.at = "none" /\ o.got = Devices
  BY <1>1 DEF Outcome
<1>3. RowsSay(desk', known')
  BY <1>2, RecordedKeeps
<1>4. known' = [x \in Devices |-> Seen(x)]
  BY <1>2 DEF Recorded, Read
<1>5. /\ (\E x \in Partitions : known'[x] = "active") <=> active \cap Partitions # {}
      /\ (\E x \in Detectors : known'[x] = "active") <=> active \cap Detectors # {}
  BY <1>4 DEF Seen, Devices
<1> QED
  BY <1>3, <1>5 DEF RowsSay, RowsTrue, Pages

\* A read of every device while Alarm.com is well and the store can be written leaves every
\* row true, whatever failed or was lost before and whatever an earlier process left: the
\* step by which pages catch up.
THEOREM WholeReadsTellTruth ==
  Spec => [][ /\ service = "well" /\ storeOk
              /\ StartupDiscovery \/ Rediscovery \/ (Poll /\ Handled = Devices)
              => RowsTrue' ]_vars
<1>1. ASSUME ReportsInvariant, service = "well", storeOk,
             StartupDiscovery \/ Rediscovery \/ (Poll /\ Handled = Devices)
      PROVE  RowsTrue'
  <2>1. ~desk.closed
    BY <1>1, ReadingCarries DEF Reading
  <2>2. ListErrors = {}
    BY <1>1 DEF ListErrors
  <2>3. active' = active
    BY <1>1 DEF StartupDiscovery, Rediscovery, Poll, outside
  <2>4. \E o \in Outcomes(Devices) : Recorded(Devices, o)
    BY <1>1, <2>2 DEF StartupDiscovery, Rediscovery, Poll, Reads
  <2> QED
    BY <1>1, <2>1, <2>3, <2>4, WholeRead
<1> QED
  BY <1>1, ReportsInvariantHolds, PTL DEF Spec

\* The grace pages when it runs out: nothing between its arming and its expiry leaves it
\* running in a process that would not write the row.
THEOREM ExpiryPages ==
  Spec => [][ GraceTimer /\ storeOk => Pages("cloud-offline")' ]_vars
<1>1. ASSUME ReportsInvariant, GraceTimer, storeOk
      PROVE  Pages("cloud-offline")'
  <2>1. DeskSound(desk) /\ ~desk.closed /\ ~desk.rejected
    BY <1>1 DEF ReportsInvariant, DeskSound, GraceTimer
  <2>2. desk'.rows["cloud-offline"] = "active"
    BY <1>1, <2>1, GraceExpiredSound DEF GraceTimer
  <2> QED
    BY <2>2 DEF Pages
<1> QED
  BY <1>1, ReportsInvariantHolds, PTL DEF Spec
=============================================================================
