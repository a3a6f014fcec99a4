-------------------------- MODULE HidDevice_proofs --------------------------
(* Theorems about HidDevice: they hold for any set of builds, any          *)
(* threshold and room, and any number of reports.                          *)
EXTENDS HidDevice, TLAPS

(* Facts about sequences of report numbers.                                *)
LEMMA SeqWiden ==
  ASSUME NEW n \in Nat, NEW s \in Seq(1..n)
  PROVE  s \in Seq(1..(n + 1))
<1>1. \A i \in 1..Len(s) : s[i] \in 1..(n + 1) OBVIOUS
<1>2. QED BY <1>1

LEMMA AppendNew ==
  ASSUME NEW n \in Nat, NEW s \in Seq(1..n)
  PROVE  /\ Append(s, n + 1) \in Seq(1..(n + 1)) /\ Len(Append(s, n + 1)) = Len(s) + 1
         /\ Tail(Append(s, n + 1)) \in Seq(1..(n + 1)) /\ Len(Tail(Append(s, n + 1))) = Len(s)
<1>1. s \in Seq(1..(n + 1)) /\ n + 1 \in 1..(n + 1) BY SeqWiden
<1>2. Append(s, n + 1) \in Seq(1..(n + 1)) /\ Len(Append(s, n + 1)) = Len(s) + 1 BY <1>1
<1>0. Len(s) \in Nat /\ Len(<<>>) = 0 OBVIOUS
<1>3. Append(s, n + 1) # <<>>
  <2>1. Len(Append(s, n + 1)) # 0 BY <1>0, <1>2
  <2>2. QED BY <1>0, <2>1
<1>4. QED BY <1>2, <1>3

LEMMA TakeFirst1 ==
  ASSUME NEW n \in Nat, NEW s \in Seq(1..n), s # <<>>
  PROVE  Head(s) \in 1..n /\ Tail(s) \in Seq(1..n) /\ Len(Tail(s)) = Len(s) - 1
OBVIOUS

(* What the callbacks and the system make of their lists.                  *)
LEMMA AttachedType ==
  ASSUME NEW n \in Nat, NEW s \in Seq(1..n), Len(s) <= Threshold + 2
  PROVE  Attached(s, n + 1) \in Seq(1..(n + 1)) /\ Len(Attached(s, n + 1)) <= Threshold + 2
<1>1. Len(s) \in Nat /\ Threshold \in Nat BY HidAssumption
<1>5. /\ Append(s, n + 1) \in Seq(1..(n + 1)) /\ Len(Append(s, n + 1)) = Len(s) + 1
      /\ Tail(Append(s, n + 1)) \in Seq(1..(n + 1)) /\ Len(Tail(Append(s, n + 1))) = Len(s)
  BY AppendNew
<1>2. CASE s # <<>> /\ Len(s) - 1 > Threshold
  <2>1. Attached(s, n + 1) = Tail(Append(s, n + 1)) BY <1>2 DEF Attached
  <2>2. QED BY <2>1, <1>5
<1>3. CASE ~(s # <<>> /\ Len(s) - 1 > Threshold)
  <2>1. Attached(s, n + 1) = Append(s, n + 1) BY <1>3 DEF Attached
  <2>2. Len(s) + 1 <= Threshold + 2 BY <1>1, <1>3
  <2>3. QED BY <2>1, <2>2, <1>5
<1>4. QED BY <1>2, <1>3

LEMMA KeptType ==
  ASSUME NEW n \in Nat, NEW s \in Seq(1..n), Len(s) <= KernelRoom,
         backend \in {"hidraw", "windows"}
  PROVE  Kept(s, n + 1) \in Seq(1..(n + 1)) /\ Len(Kept(s, n + 1)) <= KernelRoom
<1>1. Len(s) \in Nat /\ KernelRoom \in Nat BY HidAssumption
<1>2. /\ Append(s, n + 1) \in Seq(1..(n + 1)) /\ Len(Append(s, n + 1)) = Len(s) + 1
      /\ Tail(Append(s, n + 1)) \in Seq(1..(n + 1)) /\ Len(Tail(Append(s, n + 1))) = Len(s)
      /\ s \in Seq(1..(n + 1))
  BY AppendNew, SeqWiden
<1>3. CASE Len(s) < KernelRoom
  <2>1. Kept(s, n + 1) = Append(s, n + 1) BY <1>3 DEF Kept
  <2>2. Len(s) + 1 <= KernelRoom BY <1>1, <1>3
  <2>3. QED BY <2>1, <2>2, <1>2
<1>4. CASE Len(s) = KernelRoom
  <2>1. Kept(s, n + 1) = IF backend = "hidraw" THEN s ELSE Tail(Append(s, n + 1))
    BY <1>1, <1>4 DEF Kept
  <2>2. QED BY <2>1, <1>1, <1>2, <1>4
<1>5. QED BY <1>1, <1>3, <1>4

----------------------------------------------------------------------------
(* Type correctness, in the part about reports and the part about places.  *)
Lists ==
  /\ sent \in Nat /\ got \in 0..sent
  /\ list \in Seq(Numbers)
  /\ Len(list) <= IF backend \in Threaded THEN Threshold + 2 ELSE KernelRoom
  /\ buf \in Seq(Numbers) /\ Len(buf) <= 1

Places ==
  /\ backend \in {"mac", "libusb", "hidraw", "windows"} /\ plugged \in BOOLEAN
  /\ main \in {"unopened", "opening", "open", "signal", "barrier", "join", "freed"}
  /\ rd \in {"out", "asleep", "woken", "poll", "wait", "result"} /\ mode \in Modes
  /\ result \in {"data", "zero", "error"}
  /\ rt \in {"none", "start", "test", "run", "wake", "barrier", "ended", "failed"}
  /\ shutdown \in BOOLEAN /\ gone \in BOOLEAN /\ stop \in BOOLEAN /\ hearing \in BOOLEAN
  /\ pending \in BOOLEAN

LEMMA TypeParts == TypeOK <=> Lists /\ Places
BY DEF TypeOK, Lists, Places

LEMMA TypeInit == Init => Lists /\ Places
<1> SUFFICES ASSUME Init PROVE Lists /\ Places OBVIOUS
<1>1. Threshold \in Nat /\ KernelRoom \in Nat /\ Backends \subseteq {"mac", "libusb", "hidraw", "windows"}
  BY HidAssumption
<1>2. <<>> \in Seq(1..0) /\ Len(<<>>) = 0 OBVIOUS
<1>3. Lists BY <1>1, <1>2 DEF Init, Lists, Numbers
<1>4. Places BY <1>1 DEF Init, Places, Modes
<1>5. QED BY <1>3, <1>4

(* Every place of a thread is one of its places.                           *)
LEMMA PlacesNext == Places /\ [Next]_vars => Places'
<1> SUFFICES ASSUME Places, [Next]_vars PROVE Places' OBVIOUS
<1> USE DEF Places, Modes, appVars, threadVars, winVars
<1>1. CASE Opening BY <1>1 DEF Opening, OpenMac, OpenUsb, OpenRaw, OpenWin
<1>2. CASE Thread
  BY <1>2 DEF Thread, Start, Test, Returns, TransferEnds, HandleFails, Wake, Woken
<1>3. CASE Device BY <1>3 DEF Device, ReportMac, ReportUsb, SystemReport, Unplug, Arrives, Woken
<1>4. CASE Removed BY <1>4 DEF Removed
<1>5. CASE Reading
  BY <1>5 DEF Reading, ResumeMac, ResumeUsb, ReadRaw, Complete, ResultWin, TakeFirst, Return
<1>6. CASE Closing BY <1>6 DEF Closing, Signal, Barrier, Join
<1>7. ASSUME NEW m \in Modes, ReadList(m) \/ Poll(m) \/ ReadWin(m) PROVE Places'
  <2>1. CASE ReadList(m) BY <2>1 DEF ReadList, TakeFirst, Return
  <2>2. CASE Poll(m) BY <2>2 DEF Poll
  <2>3. CASE ReadWin(m)
    <3>1. rd' \in {"out", "wait", "result"} BY <2>3 DEF ReadWin, Return
    <3>2. pending' \in BOOLEAN /\ result' \in {"data", "zero", "error"}
      BY <2>3 DEF ReadWin, Return
    <3>3. QED BY <2>3, <3>1, <3>2 DEF ReadWin
  <2>4. QED BY <1>7, <2>1, <2>2, <2>3
<1>8. CASE Spurious \/ TimedOut BY <1>8 DEF Spurious, TimedOut, Return
<1>9. CASE CloseMac \/ CloseUsb \/ CloseRaw \/ CloseWin
  BY <1>9 DEF CloseMac, CloseUsb, CloseRaw, CloseWin
<1>10. CASE UNCHANGED vars BY <1>10 DEF vars
<1>11. QED
  BY <1>1, <1>2, <1>3, <1>4, <1>5, <1>6, <1>7, <1>8, <1>9, <1>10 DEF Next

(* No report number is above those sent, and no list too long.             *)
LEMMA ListsNext == Lists /\ Places /\ [Next]_vars => Lists'
<1> SUFFICES ASSUME Lists, Places, [Next]_vars PROVE Lists' OBVIOUS
<1> USE DEF Lists, Numbers, appVars, threadVars, winVars
<1>a. Threshold \in Nat /\ KernelRoom \in Nat BY HidAssumption
<1>b. sent \in Nat /\ list \in Seq(1..sent) /\ buf \in Seq(1..sent) /\ got \in 0..sent OBVIOUS
<1>c. <<>> \in Seq(1..sent) /\ Len(<<>>) = 0 OBVIOUS
<1>d. list # <<>> => /\ Head(list) \in 1..sent /\ Tail(list) \in Seq(1..sent)
                     /\ Len(Tail(list)) = Len(list) - 1 /\ Len(list) \in Nat
  BY <1>b, TakeFirst1
<1>e. ASSUME TakeFirst, UNCHANGED <<backend, sent, buf>> PROVE Lists'
  <2>1. /\ got' \in 1..sent /\ list' \in Seq(1..sent) /\ Len(list') = Len(list) - 1
        /\ Len(list) \in Nat
    BY <1>d, <1>e DEF TakeFirst
  <2>2. Len(list') <= IF backend \in Threaded THEN Threshold + 2 ELSE KernelRoom BY <2>1, <1>a
  <2>3. QED BY <1>b, <1>e, <2>1, <2>2
<1>f. ASSUME UNCHANGED <<sent, got, list, buf, backend>> PROVE Lists'
  BY <1>f
<1>1. CASE Opening BY <1>1, <1>f DEF Opening, OpenMac, OpenUsb, OpenRaw, OpenWin
<1>2. CASE Thread
  BY <1>2, <1>f DEF Thread, Start, Test, Returns, TransferEnds, HandleFails, Wake
<1>3. CASE Device
  <2>1. sent' = sent + 1 => got \in 0..sent' /\ buf \in Seq(1..sent') BY <1>b, SeqWiden
  <2>2. CASE ReportMac \/ ReportUsb
    <3>1. backend \in Threaded /\ Len(list) <= Threshold + 2
      BY <2>2 DEF ReportMac, ReportUsb, Threaded
    <3>2. Attached(list, sent + 1) \in Seq(1..(sent + 1))
            /\ Len(Attached(list, sent + 1)) <= Threshold + 2
      BY <3>1, <1>b, AttachedType
    <3>3. /\ sent' = sent + 1 /\ list' = Attached(list, sent + 1)
          /\ UNCHANGED <<got, buf, backend>>
      BY <2>2 DEF ReportMac, ReportUsb, Arrives
    <3>4. QED BY <1>b, <2>1, <3>1, <3>2, <3>3
  <2>3. CASE SystemReport
    <3>1. backend \notin Threaded /\ backend \in {"hidraw", "windows"} /\ Len(list) <= KernelRoom
      BY <2>3 DEF SystemReport, Threaded, Places
    <3>2. Kept(list, sent + 1) \in Seq(1..(sent + 1)) /\ Len(Kept(list, sent + 1)) <= KernelRoom
      BY <3>1, <1>b, KeptType
    <3>3. /\ sent' = sent + 1 /\ list' = Kept(list, sent + 1)
          /\ UNCHANGED <<got, buf, backend>>
      BY <2>3 DEF SystemReport, Arrives
    <3>4. QED BY <1>b, <2>1, <3>1, <3>2, <3>3
  <2>4. CASE Unplug BY <2>4, <1>f DEF Unplug
  <2>5. QED BY <1>3, <2>2, <2>3, <2>4 DEF Device
<1>4. CASE Removed BY <1>4, <1>f DEF Removed
<1>5. CASE Reading
  <2>1. CASE ResumeMac \/ ResumeUsb \/ ReadRaw
    BY <2>1, <1>e, <1>f DEF ResumeMac, ResumeUsb, ReadRaw
  <2>2. CASE Complete
    <3>1. <<Head(list)>> \in Seq(1..sent) /\ Len(<<Head(list)>>) = 1
      BY <2>2, <1>d DEF Complete
    <3>2. Len(Tail(list)) <= Len(list) BY <2>2, <1>d DEF Complete
    <3>3. Len(Tail(list)) <= IF backend \in Threaded THEN Threshold + 2 ELSE KernelRoom
      BY <2>2, <3>2, <1>a, <1>d DEF Complete
    <3>4. QED BY <2>2, <1>b, <1>d, <3>1, <3>3 DEF Complete
  <2>3. CASE ResultWin
    <3>1. buf # <<>> => buf[1] \in 1..sent BY <1>b
    <3>2. got' \in 0..sent BY <2>3, <3>1, <1>b DEF ResultWin
    <3>3. QED BY <2>3, <3>2, <1>b, <1>c DEF ResultWin
  <2>4. QED BY <1>5, <2>1, <2>2, <2>3 DEF Reading
<1>6. CASE Closing
  <2>1. CASE Signal \/ Barrier BY <2>1, <1>f DEF Signal, Barrier
  <2>2. CASE Join BY <2>2, <1>a, <1>b, <1>c DEF Join
  <2>3. QED BY <1>6, <2>1, <2>2 DEF Closing
<1>7. ASSUME NEW m \in Modes, ReadList(m) \/ Poll(m) \/ ReadWin(m) PROVE Lists'
  <2>1. CASE ReadList(m) BY <2>1, <1>e, <1>f DEF ReadList
  <2>2. CASE Poll(m) \/ ReadWin(m) BY <2>2, <1>f DEF Poll, ReadWin
  <2>3. QED BY <1>7, <2>1, <2>2
<1>8. CASE Spurious \/ TimedOut BY <1>8, <1>f DEF Spurious, TimedOut
<1>9. CASE CloseMac \/ CloseUsb \/ CloseRaw \/ CloseWin
  <2>1. CASE CloseMac \/ CloseUsb BY <2>1, <1>f DEF CloseMac, CloseUsb
  <2>2. 0 <= IF backend \in Threaded THEN Threshold + 2 ELSE KernelRoom BY <1>a
  <2>3. CASE CloseRaw BY <2>2, <2>3, <1>b, <1>c DEF CloseRaw
  <2>4. CASE CloseWin BY <2>2, <2>4, <1>b, <1>c DEF CloseWin
  <2>5. QED BY <1>9, <2>1, <2>3, <2>4
<1>10. CASE UNCHANGED vars BY <1>10, <1>f DEF vars
<1>11. QED
  BY <1>1, <1>2, <1>3, <1>4, <1>5, <1>6, <1>7, <1>8, <1>9, <1>10 DEF Next

(* Whatever the build: report numbers, lists and places are of their types *)
(* and no list of hidapi grows beyond the threshold and two, though        *)
(* reports come while nobody reads.                                        *)
THEOREM TypesHold == Spec => []TypeOK
<1>1. Init => Lists /\ Places BY TypeInit
<1>2. Lists /\ Places /\ [Next]_vars => (Lists /\ Places)' BY ListsNext, PlacesNext
<1>3. Lists /\ Places => TypeOK BY TypeParts
<1>4. QED BY <1>1, <1>2, <1>3, PTL DEF Spec

----------------------------------------------------------------------------
(* Lost wakeups.  A thread about to tell the sleepers has a reason the     *)
(* reader will see; only the Mac OS build has a second flag, and only the  *)
(* builds with a thread have readers sleep.                                *)
Reasons ==
  /\ rt \in {"wake", "barrier", "ended"} => shutdown \/ gone
  /\ backend # "mac" => ~gone
  /\ rd \in {"asleep", "woken"} => backend \in Threaded

WakeInv == Reasons /\ NoSleepOnData

LEMMA ReasonsNext == Reasons /\ [Next]_vars => Reasons'
<1> SUFFICES ASSUME Reasons, [Next]_vars PROVE Reasons' OBVIOUS
<1> USE DEF Reasons, appVars, threadVars, winVars
<1>1. CASE Opening BY <1>1 DEF Opening, OpenMac, OpenUsb, OpenRaw, OpenWin
<1>2. CASE Thread
  BY <1>2 DEF Thread, Start, Test, Returns, TransferEnds, HandleFails, Wake, Woken
<1>3. CASE Device
  BY <1>3 DEF Device, ReportMac, ReportUsb, SystemReport, Unplug, Woken
<1>4. CASE Removed BY <1>4 DEF Removed
<1>5. CASE Reading
  BY <1>5 DEF Reading, ResumeMac, ResumeUsb, ReadRaw, Complete, ResultWin, TakeFirst, Return
<1>6. CASE Closing BY <1>6 DEF Closing, Signal, Barrier, Join
<1>7. ASSUME NEW m \in Modes, ReadList(m) \/ Poll(m) \/ ReadWin(m) PROVE Reasons'
  <2>1. CASE ReadList(m) BY <2>1 DEF ReadList, TakeFirst, Return
  <2>2. CASE Poll(m) BY <2>2 DEF Poll
  <2>3. CASE ReadWin(m) BY <2>3 DEF ReadWin, Return
  <2>4. QED BY <1>7, <2>1, <2>2, <2>3
<1>8. CASE Spurious \/ TimedOut BY <1>8 DEF Spurious, TimedOut, Return
<1>9. CASE CloseMac \/ CloseUsb \/ CloseRaw \/ CloseWin
  BY <1>9 DEF CloseMac, CloseUsb, CloseRaw, CloseWin
<1>10. CASE UNCHANGED vars BY <1>10 DEF vars
<1>11. QED
  BY <1>1, <1>2, <1>3, <1>4, <1>5, <1>6, <1>7, <1>8, <1>9, <1>10 DEF Next

LEMMA WakeNext == WakeInv /\ [Next]_vars => WakeInv'
<1> SUFFICES ASSUME Reasons, NoSleepOnData, [Next]_vars PROVE NoSleepOnData'
  BY ReasonsNext DEF WakeInv
<1> USE DEF NoSleepOnData, appVars, threadVars, winVars
<1>1. ASSUME UNCHANGED <<rd, rt, list>> PROVE NoSleepOnData' BY <1>1
<1>2. ASSUME rd' # "asleep" PROVE NoSleepOnData' BY <1>2
<1>3. CASE Opening BY <1>3 DEF Opening, OpenMac, OpenUsb, OpenRaw, OpenWin
<1>4. CASE Thread
  <2>1. CASE Wake \/ HandleFails BY <2>1, <1>2 DEF Wake, HandleFails, Woken
  <2>2. CASE Start \/ Test \/ Returns \/ TransferEnds
    BY <2>2 DEF Start, Test, Returns, TransferEnds
  <2>3. QED BY <1>4, <2>1, <2>2 DEF Thread
<1>5. CASE Device
  <2>1. CASE ReportMac BY <2>1, <1>2 DEF ReportMac, Woken
  <2>2. CASE ReportUsb BY <2>2 DEF ReportUsb, Woken
  <2>3. CASE SystemReport \/ Unplug BY <2>3 DEF SystemReport, Unplug, Reasons
  <2>4. QED BY <1>5, <2>1, <2>2, <2>3 DEF Device
<1>6. CASE Removed BY <1>6 DEF Removed
<1>7. CASE Reading
  <2>1. CASE ResumeMac BY <2>1 DEF ResumeMac, TakeFirst, Return, Reasons
  <2>2. CASE ResumeUsb BY <2>2 DEF ResumeUsb, TakeFirst, Return, Reasons
  <2>3. CASE ReadRaw \/ ResultWin BY <2>3, <1>2 DEF ReadRaw, ResultWin, TakeFirst, Return
  <2>4. CASE Complete BY <2>4 DEF Complete
  <2>5. QED BY <1>7, <2>1, <2>2, <2>3, <2>4 DEF Reading
<1>8. CASE Closing BY <1>8 DEF Closing, Signal, Barrier, Join, Reasons
<1>9. ASSUME NEW m \in Modes, ReadList(m) \/ Poll(m) \/ ReadWin(m) PROVE NoSleepOnData'
  <2>1. CASE ReadList(m) BY <2>1 DEF ReadList, TakeFirst, Return, Reasons
  <2>2. CASE Poll(m) BY <2>2, <1>2 DEF Poll
  <2>3. CASE ReadWin(m) BY <2>3, <1>2 DEF ReadWin, Return
  <2>4. QED BY <1>9, <2>1, <2>2, <2>3
<1>10. CASE Spurious \/ TimedOut BY <1>10, <1>2 DEF Spurious, TimedOut, Return
<1>11. CASE CloseMac \/ CloseUsb \/ CloseRaw \/ CloseWin
  BY <1>11 DEF CloseMac, CloseUsb, CloseRaw, CloseWin
<1>12. CASE UNCHANGED vars BY <1>12, <1>1 DEF vars
<1>13. QED
  BY <1>3, <1>4, <1>5, <1>6, <1>7, <1>8, <1>9, <1>10, <1>11, <1>12 DEF Next

(* No wakeup is lost between the reader, the thread that receives reports, *)
(* and a shutdown, an unplugged device or a close.                         *)
THEOREM NoWakeupLost == Spec => []NoSleepOnData
<1>1. Init => WakeInv BY DEF Init, WakeInv, Reasons, NoSleepOnData
<1>2. WakeInv => NoSleepOnData BY DEF WakeInv
<1>3. QED BY <1>1, <1>2, WakeNext, PTL DEF Spec

----------------------------------------------------------------------------
(* The refinement.  Only a pending read of Windows has a buffer.           *)
BufInv ==
  /\ backend # "windows" => buf = <<>>
  /\ main \in {"signal", "barrier", "join"} => backend # "windows"

LEMMA BufNext == BufInv /\ [Next]_vars => BufInv'
<1> SUFFICES ASSUME BufInv, [Next]_vars PROVE BufInv' OBVIOUS
<1> USE DEF BufInv, appVars, threadVars, winVars
<1>1. CASE Opening BY <1>1 DEF Opening, OpenMac, OpenUsb, OpenRaw, OpenWin
<1>2. CASE Thread BY <1>2 DEF Thread, Start, Test, Returns, TransferEnds, HandleFails, Wake
<1>3. CASE Device BY <1>3 DEF Device, ReportMac, ReportUsb, SystemReport, Unplug
<1>4. CASE Removed BY <1>4 DEF Removed
<1>5. CASE Reading BY <1>5 DEF Reading, ResumeMac, ResumeUsb, ReadRaw, Complete, ResultWin
<1>6. CASE Closing BY <1>6 DEF Closing, Signal, Barrier, Join
<1>7. ASSUME NEW m \in Modes, ReadList(m) \/ Poll(m) \/ ReadWin(m) PROVE BufInv'
  BY <1>7 DEF ReadList, Poll, ReadWin
<1>8. CASE Spurious \/ TimedOut BY <1>8 DEF Spurious, TimedOut
<1>9. CASE CloseMac \/ CloseUsb \/ CloseRaw \/ CloseWin
  BY <1>9 DEF CloseMac, CloseUsb, CloseRaw, CloseWin
<1>10. CASE UNCHANGED vars BY <1>10 DEF vars
<1>11. QED
  BY <1>1, <1>2, <1>3, <1>4, <1>5, <1>6, <1>7, <1>8, <1>9, <1>10 DEF Next

LEMMA AsFunction ==
  ASSUME NEW s \in Seq(Nat)
  PROVE  s = [j \in 1..Len(s) |-> s[j]]
OBVIOUS

LEMMA OneLong ==
  ASSUME NEW s \in Seq(Nat), s # <<>>, Len(s) <= 1
  PROVE  s = <<s[1]>> /\ s[1] \in Nat /\ Len(s) = 1
<1>1. Len(s) = 1 /\ s[1] \in Nat
  <2>1. Len(s) \in Nat /\ Len(s) # 0 OBVIOUS
  <2> DEFINE n == Len(s)
  <2>2. n \in Nat /\ n # 0 /\ n <= 1 BY <2>1
  <2> HIDE DEF n
  <2>3. n = 1 BY <2>2
  <2>4. Len(s) = 1 BY <2>3 DEF n
  <2>5. QED BY <2>4
<1>2. s = [j \in 1..1 |-> s[j]] BY <1>1, AsFunction
<1>3. <<s[1]>> = [j \in 1..1 |-> s[1]] OBVIOUS
<1>4. QED BY <1>1, <1>2, <1>3

(* Sequences: taking the first away is losing the first; and a buffer of   *)
(* at most one report before a list.                                       *)
LEMMA TailLoses ==
  ASSUME NEW w \in Seq(Nat), w # <<>>
  PROVE  Tail(w) = Reports!Without(w, 1)
<1>1. Reports!Without(w, 1) = [j \in 1..(Len(w) - 1) |-> w[j + 1]]
  <2>1. \A j \in 1..(Len(w) - 1) : ~(j < 1) OBVIOUS
  <2>2. QED BY <2>1 DEF Reports!Without
<1>2. Tail(w) = [j \in 1..(Len(w) - 1) |-> w[j + 1]]
  <2>1. Tail(w) \in Seq(Nat) /\ Len(Tail(w)) = Len(w) - 1 OBVIOUS
  <2>2. \A j \in 1..(Len(w) - 1) : Tail(w)[j] = w[j + 1] OBVIOUS
  <2>3. Tail(w) = [j \in 1..Len(Tail(w)) |-> Tail(w)[j]] BY <2>1, AsFunction
  <2>4. QED BY <2>1, <2>2, <2>3
<1>3. QED BY <1>1, <1>2

LEMMA EmptyBefore ==
  ASSUME NEW s \in Seq(Nat)
  PROVE  <<>> \o s = s /\ s \o <<>> = s
OBVIOUS

LEMMA OneBefore ==
  ASSUME NEW x \in Nat, NEW s \in Seq(Nat)
  PROVE  /\ <<x>> \o s \in Seq(Nat) /\ <<x>> \o s # <<>>
         /\ Head(<<x>> \o s) = x /\ Tail(<<x>> \o s) = s
         /\ Len(<<x>> \o s) = Len(s) + 1
OBVIOUS

LEMMA LastLoses ==
  ASSUME NEW w \in Seq(Nat), NEW x \in Nat
  PROVE  Reports!Without(Append(w, x), Len(w) + 1) = w
<1> DEFINE v == Reports!Without(Append(w, x), Len(w) + 1)
<1>1. v = [j \in 1..Len(w) |-> Append(w, x)[j]]
  <2>1. Len(Append(w, x)) - 1 = Len(w) OBVIOUS
  <2>2. \A j \in 1..Len(w) : j < Len(w) + 1 OBVIOUS
  <2>3. QED BY <2>1, <2>2 DEF Reports!Without
<1>2. \A j \in 1..Len(w) : Append(w, x)[j] = w[j] OBVIOUS
<1>3. w = [j \in 1..Len(w) |-> w[j]] OBVIOUS
<1>4. QED BY <1>1, <1>2, <1>3

LEMMA SecondLoses ==
  ASSUME NEW b \in Nat, NEW s \in Seq(Nat), NEW x \in Nat
  PROVE  <<b>> \o Tail(Append(s, x)) = Reports!Without(Append(<<b>> \o s, x), 2)
<1> DEFINE w == Append(<<b>> \o s, x)
           u == <<b>> \o Tail(Append(s, x))
           v == Reports!Without(w, 2)
<1>1. Len(w) = Len(s) + 2 /\ Len(s) \in Nat OBVIOUS
<1>2. Tail(Append(s, x)) \in Seq(Nat) /\ Len(Tail(Append(s, x))) = Len(s) OBVIOUS
<1>3. u \in Seq(Nat) /\ Len(u) = Len(s) + 1 BY <1>2
<1>4. v = [j \in 1..(Len(s) + 1) |-> IF j < 2 THEN w[j] ELSE w[j + 1]]
  BY <1>1 DEF Reports!Without
<1>5. \A j \in 1..(Len(s) + 1) : u[j] = IF j < 2 THEN w[j] ELSE w[j + 1]
  <2> SUFFICES ASSUME NEW j \in 1..(Len(s) + 1) PROVE u[j] = IF j < 2 THEN w[j] ELSE w[j + 1]
    OBVIOUS
  <2>1. CASE j = 1
    <3>1. u[1] = b BY <1>2
    <3>2. w[1] = b BY <1>1
    <3>3. QED BY <2>1, <3>1, <3>2
  <2>2. CASE j # 1
    <3>1. j \in Nat /\ j >= 2 /\ j - 1 \in 1..Len(s) BY <1>1, <2>2
    <3>2. u[j] = Tail(Append(s, x))[j - 1] BY <1>2, <3>1
    <3>3. Tail(Append(s, x))[j - 1] = Append(s, x)[j] BY <1>1, <1>2, <3>1
    <3>4. w[j + 1] = Append(s, x)[j]
      <4>1. CASE j <= Len(s)
        <5>1. w[j + 1] = (<<b>> \o s)[j + 1] BY <1>1, <3>1, <4>1
        <5>2. (<<b>> \o s)[j + 1] = s[j] BY <1>1, <3>1, <4>1
        <5>3. Append(s, x)[j] = s[j] BY <1>1, <3>1, <4>1
        <5>4. QED BY <5>1, <5>2, <5>3
      <4>2. CASE j = Len(s) + 1
        <5>1. w[j + 1] = x BY <1>1, <4>2
        <5>2. Append(s, x)[j] = x BY <1>1, <4>2
        <5>3. QED BY <5>1, <5>2
      <4>3. QED BY <1>1, <4>1, <4>2
    <3>5. QED BY <3>1, <3>2, <3>3, <3>4
  <2>3. QED BY <2>1, <2>2
<1>6. u = [j \in 1..(Len(s) + 1) |-> u[j]] BY <1>3
<1>7. QED BY <1>4, <1>5, <1>6

(* A step that brings a report, for which there is room or is none.        *)
LEMMA ReportSends ==
  ASSUME Lists, Places, BufInv, ReportMac \/ ReportUsb \/ SystemReport
  PROVE  Reports!Send
<1> USE DEF Lists, Numbers
<1> DEFINE x == sent + 1
           w == Append(waiting, x)
<1>1. sent' = x /\ got' = got /\ buf' = buf /\ x \in Nat
  BY DEF ReportMac, ReportUsb, SystemReport, Arrives, winVars
<1>2. /\ list \in Seq(Nat) /\ buf \in Seq(Nat) /\ Len(list) \in Nat
      /\ Threshold \in Nat /\ KernelRoom \in Nat /\ KernelRoom >= Threshold + 2
  BY HidAssumption
<1>3. Append(list, x) \in Seq(Nat) /\ Append(list, x) # <<>> BY <1>1, <1>2
<1>4. waiting \in Seq(Nat) /\ w \in Seq(Nat) /\ Len(w) = Len(waiting) + 1
        /\ Len(waiting) = Len(buf) + Len(list)
  BY <1>1, <1>2 DEF waiting
<1>5. /\ waiting' = w => Reports!Send
      /\ \A i \in 1..Len(w) :
           Len(waiting) >= Threshold + 2 /\ waiting' = Reports!Without(w, i) => Reports!Send
  BY <1>1 DEF Reports!Send
<1>6. CASE list' = Append(list, x)
  <2>1. buf \o Append(list, x) = Append(buf \o list, x) BY <1>1, <1>2
  <2>2. QED BY <1>1, <1>5, <1>6, <2>1 DEF waiting
<1>7. CASE list' = Tail(Append(list, x)) /\ Len(list) >= Threshold + 2
  <2>1. Len(waiting) >= Threshold + 2 BY <1>2, <1>4, <1>7
  <2>2. CASE buf = <<>>
    <3>1. waiting = list BY <1>2, <2>2, EmptyBefore DEF waiting
    <3>2. waiting' = Tail(w)
      <4>1. Tail(Append(list, x)) \in Seq(Nat) BY <1>3
      <4>2. QED BY <1>1, <1>7, <2>2, <3>1, <4>1, EmptyBefore DEF waiting
    <3>3. 1 \in 1..Len(w) /\ w # <<>> BY <1>2, <1>3, <1>4, <3>1
    <3>4. Tail(w) = Reports!Without(w, 1) BY <1>4, <3>3, TailLoses
    <3>5. QED BY <1>5, <2>1, <3>2, <3>3, <3>4
  <2>3. CASE buf # <<>>
    <3>1. buf = <<buf[1]>> /\ buf[1] \in Nat /\ Len(buf) = 1
      BY <1>2, <2>3, OneLong
    <3>2. <<buf[1]>> \o Tail(Append(list, x))
            = Reports!Without(Append(<<buf[1]>> \o list, x), 2)
      BY <1>1, <1>2, <3>1, SecondLoses
    <3>3. waiting' = Reports!Without(w, 2) BY <1>1, <1>7, <3>1, <3>2 DEF waiting
    <3>4. 2 \in 1..Len(w) BY <1>2, <1>4, <1>7, <3>1
    <3>5. QED BY <1>5, <2>1, <3>3, <3>4
  <2>4. QED BY <2>2, <2>3
<1>8. CASE list' = list /\ Len(list) >= Threshold + 2
  <2>1. waiting' = waiting BY <1>1, <1>8 DEF waiting
  <2>2. waiting = Reports!Without(w, Len(waiting) + 1) BY <1>1, <1>4, LastLoses
  <2>3. Len(waiting) + 1 \in 1..Len(w) /\ Len(waiting) >= Threshold + 2
    BY <1>2, <1>4, <1>8
  <2>4. QED BY <1>5, <2>1, <2>2, <2>3
<1>9. CASE ReportMac \/ ReportUsb
  <2>1. list' = Attached(list, x) BY <1>9 DEF ReportMac, ReportUsb
  <2>2. CASE list # <<>> /\ Len(list) - 1 > Threshold
    <3>1. Len(list) >= Threshold + 2 BY <1>2, <2>2
    <3>2. list' = Tail(Append(list, x)) BY <2>1, <2>2 DEF Attached
    <3>3. QED BY <1>7, <3>1, <3>2
  <2>3. CASE ~(list # <<>> /\ Len(list) - 1 > Threshold)
    BY <1>6, <2>1, <2>3 DEF Attached
  <2>4. QED BY <2>2, <2>3
<1>10. CASE SystemReport
  <2>1. list' = Kept(list, x) BY <1>10 DEF SystemReport
  <2>2. CASE Len(list) < KernelRoom BY <1>6, <2>1, <2>2 DEF Kept
  <2>3. CASE ~(Len(list) < KernelRoom)
    <3>1. Len(list) >= Threshold + 2 BY <1>2, <2>3
    <3>2. list' = list \/ list' = Tail(Append(list, x)) BY <2>1, <2>3 DEF Kept
    <3>3. QED BY <1>7, <1>8, <3>1, <3>2
  <2>4. QED BY <2>2, <2>3
<1>11. QED BY <1>9, <1>10

(* A step that reads, or completes a pending read.                         *)
LEMMA TakeReads ==
  ASSUME Lists, BufInv, TakeFirst, UNCHANGED <<sent, buf>>, backend # "windows"
  PROVE  Reports!Read
<1>1. buf = <<>> /\ list \in Seq(Nat) /\ list # <<>> BY DEF BufInv, Lists, Numbers, TakeFirst
<1>2. Tail(list) \in Seq(Nat) BY <1>1
<1>3. waiting = list /\ waiting' = Tail(list)
  BY <1>1, <1>2, EmptyBefore DEF waiting, TakeFirst
<1>4. QED BY <1>1, <1>3 DEF Reports!Read, TakeFirst

LEMMA ResultReads ==
  ASSUME Lists, ResultWin
  PROVE  Reports!Read \/ UNCHANGED <<sent, waiting, got>>
<1>1. list \in Seq(Nat) /\ buf \in Seq(Nat) /\ Len(buf) <= 1 BY DEF Lists, Numbers
<1>2. waiting' = list BY <1>1, EmptyBefore DEF waiting, ResultWin
<1>3. CASE buf = <<>>
  <2>1. waiting = list BY <1>1, <1>3, EmptyBefore DEF waiting
  <2>2. QED BY <1>2, <1>3, <2>1 DEF ResultWin
<1>4. CASE buf # <<>>
  <2>1. buf = <<buf[1]>> /\ buf[1] \in Nat BY <1>1, <1>4, OneLong
  <2>2. waiting # <<>> /\ Head(waiting) = buf[1] /\ Tail(waiting) = list
    BY <1>1, <2>1, OneBefore DEF waiting
  <2>3. QED BY <1>2, <1>4, <2>2 DEF ResultWin, Reports!Read
<1>5. QED BY <1>3, <1>4

LEMMA CompleteStutters ==
  ASSUME Lists, Complete
  PROVE  UNCHANGED <<sent, waiting, got>>
<1>1. list \in Seq(Nat) /\ list # <<>> /\ buf = <<>> BY DEF Lists, Numbers, Complete
<1>2. <<Head(list)>> \o Tail(list) = list BY <1>1
<1>3. waiting = list BY <1>1, EmptyBefore DEF waiting
<1>4. QED BY <1>2, <1>3 DEF Complete, waiting

LEMMA ReportsNext ==
  Lists /\ Places /\ BufInv /\ [Next]_vars => [Reports!Next]_(Reports!vars)
<1> SUFFICES ASSUME Lists, Places, BufInv, [Next]_vars
             PROVE  Reports!Next \/ UNCHANGED <<sent, waiting, got>>
  BY DEF Reports!vars
<1> USE DEF appVars, threadVars, winVars, Reports!Next
<1>1. ASSUME UNCHANGED <<sent, got, list, buf>> PROVE UNCHANGED <<sent, waiting, got>>
  BY <1>1 DEF waiting
<1>2. CASE Opening BY <1>2, <1>1 DEF Opening, OpenMac, OpenUsb, OpenRaw, OpenWin
<1>3. CASE Thread
  BY <1>3, <1>1 DEF Thread, Start, Test, Returns, TransferEnds, HandleFails, Wake
<1>4. CASE Device
  <2>1. CASE ReportMac \/ ReportUsb \/ SystemReport BY <2>1, ReportSends
  <2>2. CASE Unplug BY <2>2, <1>1 DEF Unplug
  <2>3. QED BY <1>4, <2>1, <2>2 DEF Device
<1>5. CASE Removed BY <1>5, <1>1 DEF Removed
<1>6. CASE Reading
  <2>1. CASE ResumeMac BY <2>1, <1>1, TakeReads DEF ResumeMac
  <2>2. CASE ResumeUsb BY <2>2, <1>1, TakeReads DEF ResumeUsb
  <2>3. CASE ReadRaw BY <2>3, <1>1, TakeReads DEF ReadRaw
  <2>4. CASE Complete BY <2>4, CompleteStutters
  <2>5. CASE ResultWin BY <2>5, ResultReads
  <2>6. QED BY <1>6, <2>1, <2>2, <2>3, <2>4, <2>5 DEF Reading
<1>7. CASE Closing
  <2>1. CASE Signal \/ Barrier BY <2>1, <1>1 DEF Signal, Barrier
  <2>2. CASE Join
    <3>1. buf = <<>> BY <2>2 DEF Join, BufInv
    <3>2. waiting' = <<>> BY <2>2, <3>1, EmptyBefore DEF Join, waiting
    <3>3. QED BY <2>2, <3>2 DEF Join, Reports!Discard
  <2>3. QED BY <1>7, <2>1, <2>2 DEF Closing
<1>8. ASSUME NEW m \in Modes, ReadList(m) \/ Poll(m) \/ ReadWin(m)
      PROVE  Reports!Next \/ UNCHANGED <<sent, waiting, got>>
  <2>1. CASE ReadList(m) BY <2>1, <1>1, TakeReads DEF ReadList, Threaded
  <2>2. CASE Poll(m) \/ ReadWin(m) BY <2>2, <1>1 DEF Poll, ReadWin
  <2>3. QED BY <1>8, <2>1, <2>2
<1>9. CASE Spurious \/ TimedOut BY <1>9, <1>1 DEF Spurious, TimedOut
<1>10. CASE CloseMac \/ CloseUsb \/ CloseRaw \/ CloseWin
  <2>1. CASE CloseMac \/ CloseUsb BY <2>1, <1>1 DEF CloseMac, CloseUsb
  <2>2. CASE CloseRaw \/ CloseWin
    <3>1. buf' = <<>> /\ list' = <<>> BY <2>2 DEF CloseRaw, CloseWin, BufInv
    <3>2. waiting' = <<>> BY <3>1, EmptyBefore DEF waiting
    <3>3. QED BY <2>2, <3>2 DEF CloseRaw, CloseWin, Reports!Discard
  <2>3. QED BY <1>10, <2>1, <2>2
<1>11. CASE UNCHANGED vars BY <1>11, <1>1 DEF vars
<1>12. QED
  BY <1>2, <1>3, <1>4, <1>5, <1>6, <1>7, <1>8, <1>9, <1>10, <1>11 DEF Next

(* Whatever the build, hid_read implements HidReports: reports come in the *)
(* order they were sent, none twice, and are lost only when the list is    *)
(* full or the device is closed.                                           *)
THEOREM ReadsInOrder == Spec => ReadsReports
<1>1. Init => Lists /\ Places /\ BufInv BY TypeInit DEF Init, BufInv
<1>2. Lists /\ Places /\ BufInv /\ [Next]_vars => (Lists /\ Places /\ BufInv)'
  BY ListsNext, PlacesNext, BufNext
<1>3. Init => Reports!Init BY EmptyBefore DEF Init, Reports!Init, waiting
<1>4. QED BY <1>1, <1>2, <1>3, ReportsNext, PTL DEF Spec, ReadsReports, Reports!Spec

=============================================================================
