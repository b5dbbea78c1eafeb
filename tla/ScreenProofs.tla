---------------------------- MODULE ScreenProofs ----------------------------
(***************************************************************************)
(* Proofs about ScreenCapture, for any number of threads, sessions, Binder *)
(* calls and failures of dumpsys.                                          *)
(***************************************************************************)
EXTENDS ScreenCapture, FiniteSetTheorems, SequenceTheorems, TLAPS

(* What the constants must be. *)
ConstantsOK == IsFiniteSet(Threads) /\ {MaxSessions, MaxCalls, MaxFailures} \subseteq Nat

-----------------------------------------------------------------------------
(* Binder calls *)

Entered == {t \in Threads : call[t] # "idle"}
Taken == IF at = "emit" THEN calls_read ELSE 0

CallTyped ==
    /\ binder_count \in Nat /\ calls_read \in Nat /\ lost \in Nat /\ made \in Nat
    /\ call \in [Threads -> {"idle", "add", "add_deleted", "insert"}]
    /\ stats.calls \in Nat

(* The counter only grows between the polling thread's read and its delete. *)
ReadBehind == at = "reset" => calls_read <= binder_count

CallInv == CallTyped /\ ReadBehind /\ CallsReportedOnce

(* CallsReportedOnce, over the two abbreviations above. *)
LEMMA Account ==
    CallsReportedOnce <=> stats.calls + Taken + binder_count + Cardinality(Entered) + lost = made
  BY DEF CallsReportedOnce, Taken, Entered

(* A thread enters on_binder_transaction: one more is between its ends. *)
LEMMA EnterCount ==
    ASSUME IsFiniteSet(Threads), CallTyped, NEW t \in Threads, call[t] = "idle",
           NEW v \in {"add", "insert"}, call' = [call EXCEPT ![t] = v]
    PROVE  Cardinality(Entered') = Cardinality(Entered) + 1
<1>1. Entered' = Entered \cup {t} /\ t \notin Entered
  BY DEF Entered, CallTyped
<1>2. IsFiniteSet(Entered)
  BY FS_Subset DEF Entered
<1> QED
  BY <1>1, <1>2, FS_AddElement, Zenon

(* It leaves: one less. *)
LEMMA LeaveCount ==
    ASSUME IsFiniteSet(Threads), CallTyped, NEW t \in Threads, call[t] # "idle",
           call' = [call EXCEPT ![t] = "idle"]
    PROVE  Cardinality(Entered') = Cardinality(Entered) - 1
<1>1. Entered' = Entered \ {t} /\ t \in Entered
  BY DEF Entered, CallTyped
<1>2. IsFiniteSet(Entered)
  BY FS_Subset DEF Entered
<1> QED
  BY <1>1, <1>2, FS_RemoveElement, Zenon

(* Steps of the app's threads. *)
LEMMA ThreadCallInv ==
    ASSUME IsFiniteSet(Threads), CallInv, NEW t \in Threads,
           Transaction(t) \/ Add(t) \/ Insert(t)
    PROVE  CallInv'
<1>1. /\ UNCHANGED <<at, calls_read, stats>> /\ CallTyped /\ ReadBehind
      /\ IsFiniteSet(Entered) /\ Cardinality(Entered) \in Nat
      /\ stats.calls + Taken + binder_count + Cardinality(Entered) + lost = made
      /\ Taken \in Nat /\ Taken' = Taken
  <2>1. IsFiniteSet(Entered)
    BY FS_Subset DEF Entered
  <2>2. CallTyped /\ ReadBehind /\ UNCHANGED <<at, calls_read, stats>>
    BY DEF CallInv, Transaction, Add, Insert, pollVars
  <2>3. Taken \in Nat /\ Taken' = Taken
    BY <2>2 DEF Taken, CallTyped
  <2> QED
    BY <2>1, <2>2, <2>3, Account, FS_CardinalityType DEF CallInv
<1>2. CASE Transaction(t)
  <2>1. /\ made' = made + 1 /\ UNCHANGED <<binder_count, lost>>
        /\ Cardinality(Entered') = Cardinality(Entered) + 1
    BY <1>1, <1>2, EnterCount, Zenon DEF Transaction
  <2>2. CallTyped'
    BY <1>1, <1>2, <2>1 DEF Transaction, CallTyped
  <2>3. (stats.calls + Taken + binder_count + Cardinality(Entered) + lost = made)'
    BY <1>1, <2>1 DEF CallTyped
  <2> QED
    BY <1>1, <2>1, <2>2, <2>3, Account DEF CallInv, ReadBehind, CallsReportedOnce, Taken, Entered
<1>3. CASE Add(t) \/ Insert(t)
  <2>1. /\ call[t] # "idle" /\ call' = [call EXCEPT ![t] = "idle"] /\ made' = made
        /\ \/ binder_count' = binder_count + 1 /\ lost' = lost
           \/ binder_count' = binder_count /\ lost' = lost + 1
    BY <1>1, <1>3 DEF Add, Insert
  <2>2. Cardinality(Entered') = Cardinality(Entered) - 1
    BY <1>1, <2>1, LeaveCount, Zenon
  <2>3. CallTyped'
    BY <1>1, <2>1 DEF CallTyped
  <2>4. (stats.calls + Taken + binder_count + Cardinality(Entered) + lost = made)'
    BY <1>1, <2>1, <2>2 DEF CallTyped
  <2>5. ReadBehind'
    BY <1>1, <2>1 DEF ReadBehind, CallTyped
  <2> QED
    BY <2>3, <2>4, <2>5 DEF CallInv, CallsReportedOnce, Taken, Entered
<1> QED
  BY <1>2, <1>3

(* Steps of the polling thread. *)
LEMMA PollCallInv ==
    ASSUME IsFiniteSet(Threads), CallInv,
           PollSleep \/ PollParse \/ PollRead \/ PollReset \/ PollEmit
    PROVE  CallInv'
<1>1. /\ CallTyped /\ ReadBehind /\ Cardinality(Entered) \in Nat
      /\ stats.calls + Taken + binder_count + Cardinality(Entered) + lost = made
  BY FS_Subset, FS_CardinalityType, Account DEF CallInv, Entered
<1>2. CASE PollSleep \/ PollParse \/ PollRead
  <2>1. /\ UNCHANGED <<binder_count, call, made, lost, stats>>
        /\ Taken = 0 /\ Taken' = 0 /\ calls_read' \in {calls_read, binder_count}
        /\ at' = "reset" => calls_read' = binder_count
    BY <1>2 DEF PollSleep, PollParse, PollRead, Taken
  <2>2. Entered' = Entered
    BY <2>1 DEF Entered
  <2> QED
    BY <1>1, <2>1, <2>2, Account, SMTT(90) DEF CallInv, CallTyped, ReadBehind, CallsReportedOnce, Taken, Entered
<1>3. CASE PollReset
  <2>1. /\ at = "reset" /\ at' = "emit" /\ UNCHANGED <<made, stats, calls_read>>
        /\ lost' = lost + (binder_count - calls_read) /\ binder_count' = 0
        /\ Taken = 0 /\ Taken' = calls_read
    BY <1>3 DEF PollReset, Taken
  <2>2. Entered' = Entered /\ call' \in [Threads -> {"idle", "add", "add_deleted", "insert"}]
    BY <1>1, <1>3 DEF PollReset, Entered, CallTyped
  <2>3. CallTyped'
    BY <1>1, <2>1, <2>2 DEF CallTyped, ReadBehind
  <2>4. (stats.calls + Taken + binder_count + Cardinality(Entered) + lost = made)'
    BY <1>1, <2>1, <2>2 DEF CallTyped
  <2> QED
    BY <2>1, <2>3, <2>4 DEF CallInv, ReadBehind, CallsReportedOnce, Taken, Entered
<1>4. CASE PollEmit
  <2>1. /\ UNCHANGED <<binder_count, call, made, lost>> /\ at' = "sleep"
        /\ Taken = calls_read /\ Taken' = 0 /\ calls_read' = 0
        /\ stats'.calls = stats.calls + calls_read
    BY <1>4 DEF PollEmit, Taken
  <2>2. Entered' = Entered
    BY <2>1 DEF Entered
  <2>3. CallTyped'
    BY <1>1, <2>1 DEF CallTyped
  <2>4. (stats.calls + Taken + binder_count + Cardinality(Entered) + lost = made)'
    BY <1>1, <2>1, <2>2 DEF CallTyped
  <2> QED
    BY <2>1, <2>3, <2>4 DEF CallInv, ReadBehind, CallsReportedOnce, Taken, Entered
<1> QED
  BY <1>2, <1>3, <1>4

(* Every Binder call is in one report, in the counter, on its way or lost, *)
(* in whatever order lookups, additions, insertions and the reset happen.  *)
THEOREM CallsAddUp == ASSUME ConstantsOK PROVE Spec => []CallsReportedOnce
<1>1. IsFiniteSet(Threads)
  BY DEF ConstantsOK
<1>2. Init => CallInv
  <2> SUFFICES ASSUME Init PROVE CallInv
    OBVIOUS
  <2>1. Entered = {} /\ Taken = 0 /\ stats.calls = 0
    BY DEF Init, Entered, Taken
  <2>2. CallTyped /\ ReadBehind
    BY DEF Init, CallTyped, ReadBehind
  <2> QED
    BY <2>1, <2>2, Account, FS_EmptySet DEF CallInv, Init
<1>3. CallInv /\ [Next]_vars => CallInv'
  <2>1. ASSUME CallInv, Begin \/ End \/ UNCHANGED vars PROVE CallInv'
    BY <2>1 DEF Begin, End, vars, pollVars, CallInv, CallTyped, ReadBehind, CallsReportedOnce
  <2> QED
    BY <1>1, <2>1, ThreadCallInv, PollCallInv DEF Next
<1>4. CallInv => CallsReportedOnce
  BY DEF CallInv
<1> QED
  BY <1>2, <1>3, <1>4, PTL DEF Spec

-----------------------------------------------------------------------------
(* Reports *)

Projecting(b) == b.pkg /\ b.fg /\ b.projection

(* Short sequences put together. *)
LEMMA PairFacts ==
    ASSUME NEW a, NEW b, NEW c
    PROVE  /\ <<a>> \o <<b>> = <<a, b>> /\ <<a, b>> \o <<c>> = <<a, b, c>>
           /\ <<a>> \o <<>> = <<a>> /\ <<a, b>> \o <<>> = <<a, b>>
<1> DEFINE S == {a, b, c}
<1>1. <<a>> \in Seq(S) /\ <<b>> \in Seq(S) /\ <<c>> \in Seq(S) /\ <<a, b>> \in Seq(S)
      /\ <<a, b, c>> \in Seq(S)
  OBVIOUS
<1>2. <<a>> \o <<b>> = <<a, b>>
  <2> DEFINE x == <<a>> \o <<b>>
             y == <<a, b>>
  <2>1. x \in Seq(S) /\ Len(x) = 2 /\ x[1] = a /\ x[2] = b
    BY <1>1, ConcatProperties
  <2>2. y \in Seq(S) /\ Len(y) = 2 /\ y[1] = a /\ y[2] = b
    BY <1>1
  <2> HIDE DEF x, y
  <2>3. \A i \in 1 .. Len(x) : x[i] = y[i]
    BY <2>1, <2>2
  <2>4. x = y
    BY <2>1, <2>2, <2>3, SeqEqual
  <2> QED
    BY <2>4 DEF x, y
<1>3. <<a, b>> \o <<c>> = <<a, b, c>>
  <2> DEFINE x == <<a, b>> \o <<c>>
             y == <<a, b, c>>
  <2>1. x \in Seq(S) /\ Len(x) = 3 /\ x[1] = a /\ x[2] = b /\ x[3] = c
    BY <1>1, ConcatProperties
  <2>2. y \in Seq(S) /\ Len(y) = 3 /\ y[1] = a /\ y[2] = b /\ y[3] = c
    BY <1>1
  <2> HIDE DEF x, y
  <2>3. \A i \in 1 .. Len(x) : x[i] = y[i]
    BY <2>1, <2>2
  <2>4. x = y
    BY <2>1, <2>2, <2>3, SeqEqual
  <2> QED
    BY <2>4 DEF x, y
<1>4. <<a>> \o <<>> = <<a>> /\ <<a, b>> \o <<>> = <<a, b>>
  BY <1>1, ConcatEmptySeq
<1> QED
  BY <1>2, <1>3, <1>4

(* The projection service is the last block of a listing, or none is. *)
LEMMA ListingFacts ==
    /\ Listing \in Seq([pkg : BOOLEAN, fg : BOOLEAN, projection : BOOLEAN]) /\ Len(Listing) \in Nat \ {0}
    /\ \A i \in 1 .. Len(Listing) : Projecting(Listing[i]) <=> (active /\ i = Len(Listing))
<1> DEFINE B == [pkg : BOOLEAN, fg : BOOLEAN, projection : BOOLEAN]
           h == Block(FALSE, FALSE, FALSE)
           o == Block(TRUE, TRUE, FALSE)
           p == Block(TRUE, TRUE, TRUE)
<1>1. h \in B /\ o \in B /\ p \in B /\ ~Projecting(h) /\ ~Projecting(o) /\ Projecting(p)
  BY DEF Block, Projecting
<1>2. Listing = <<h>> \o (IF other THEN <<o>> ELSE <<>>) \o IF active THEN <<p>> ELSE <<>>
  BY DEF Listing
<1> HIDE DEF B, h, o, p
<1>3. CASE other /\ active
  <2>1. Listing = <<h, o, p>>
    BY <1>1, <1>2, <1>3, PairFacts, Zenon
  <2> QED
    BY <1>1, <1>3, <2>1 DEF B
<1>4. CASE other /\ ~active
  <2>1. Listing = <<h, o>>
    BY <1>1, <1>2, <1>4, PairFacts, Zenon
  <2> QED
    BY <1>1, <1>4, <2>1 DEF B
<1>5. CASE ~other /\ active
  <2>1. Listing = <<h, p>>
    BY <1>1, <1>2, <1>5, PairFacts
  <2> QED
    BY <1>1, <1>5, <2>1 DEF B
<1>6. CASE ~other /\ ~active
  <2>1. Listing = <<h>>
    BY <1>1, <1>2, <1>6, PairFacts
  <2> QED
    BY <1>1, <1>6, <2>1 DEF B
<1> QED
  BY <1>3, <1>4, <1>5, <1>6

(* So output that is cut never shows it. *)
LEMMA CutFacts ==
    ASSUME NEW n \in 0 .. Len(Listing)
    PROVE  parse_dumpsys(SubSeq(Listing, 1, n)) = "active" <=> (active /\ n = Len(Listing))
<1> DEFINE L == Listing
           c == SubSeq(L, 1, n)
<1>1. /\ Len(L) \in Nat \ {0} /\ DOMAIN c = 1 .. n /\ n \in Nat /\ n <= Len(L)
      /\ \A i \in 1 .. n : c[i] = L[i]
      /\ c = <<>> <=> n = 0
      /\ \A i \in 1 .. Len(L) : Projecting(L[i]) <=> (active /\ i = Len(L))
  BY ListingFacts
<1>2. parse_dumpsys(c) = "active" <=> (c # <<>> /\ \E i \in DOMAIN c : Projecting(c[i]))
  BY Zenon DEF parse_dumpsys, Projecting
<1> HIDE DEF L, c
<1>3. parse_dumpsys(c) = "active" <=> (active /\ n = Len(L))
  BY <1>1, <1>2
<1> QED
  BY <1>3 DEF L, c

(* The reports of a session, with the one the thread is about to make. *)
Count ==
    [s \in Sessions |->
        reports[s] + IF at \in {"read", "reset", "emit"} /\ shown = s THEN 1 ELSE 0]

(* An active answer keeps one report from being repeated. *)
Credit == IF g_mp_state = "active" THEN 1 ELSE 0

ReportTyped ==
    /\ session \in 0 .. MaxSessions /\ shown \in 0 .. session /\ failures \in Nat
    /\ reports \in [Sessions -> Nat]
    /\ at \in {"sleep", "parse", "read", "reset", "emit"}
    /\ active \in BOOLEAN /\ (active => session > 0)

(* A session that has not begun is not reported. *)
Unborn == \A s \in Sessions : s > session => reports[s] = 0

(* The parser's answer says whether the output shows a session, and a      *)
(* report is of one.                                                       *)
AnswerTrue ==
    /\ at = "parse" => (parse_dumpsys(out) = "active" <=> shown # 0)
    /\ at \in {"read", "reset", "emit"} => shown # 0 /\ g_mp_state = "active"

(* The session that can still be shown has a report to spare for every     *)
(* failure; output in hand that does not show it is a failure, or the      *)
(* session has begun since.                                                *)
LiveBound ==
    active => IF at = "parse" /\ shown # session
              THEN Count[session] = 0 \/ Count[session] < failures + Credit
              ELSE Count[session] <= failures + Credit

(* So has the one that the output in hand shows. *)
ShownBound == at = "parse" /\ shown # 0 => Count[shown] <= failures + Credit

CountBound == \A s \in Sessions : Count[s] <= 1 + failures

ReportInv == ReportTyped /\ Unborn /\ AnswerTrue /\ LiveBound /\ ShownBound /\ CountBound

(* Counts are numbers. *)
LEMMA CountIsNat ==
    ASSUME ReportTyped, ConstantsOK
    PROVE  /\ Count \in [Sessions -> Nat]
           /\ shown # 0 => shown \in Sessions
           /\ active => session \in Sessions
           /\ MaxSessions \in Nat /\ Credit \in {0, 1}
<1>1. MaxSessions \in Nat
  BY DEF ConstantsOK
<1> QED
  BY <1>1 DEF ReportTyped, Count, Credit, Sessions

(* A capture session begins or ends. *)
LEMMA AppReportInv ==
    ASSUME ReportInv, ConstantsOK, Begin \/ End PROVE ReportInv'
<1>1. /\ ReportTyped /\ Unborn /\ AnswerTrue /\ LiveBound /\ ShownBound /\ CountBound
      /\ UNCHANGED <<at, out, g_mp_state, failures, shown, reports>>
      /\ Count' = Count
      /\ Credit' = Credit
  BY DEF ReportInv, Begin, End, pollVars, Count, Credit
<1>2. AnswerTrue' /\ ShownBound' /\ CountBound'
  <2>1. AnswerTrue' /\ CountBound'
    BY <1>1 DEF AnswerTrue, CountBound
  <2> QED
    BY <1>1, <2>1, CountIsNat DEF ShownBound
<1>3. CASE Begin
  <2>1. /\ session' = session + 1 /\ active' = TRUE /\ session < MaxSessions
    BY <1>3 DEF Begin
  <2>2. ReportTyped' /\ Unborn'
    <3>1. /\ session' \in 0 .. MaxSessions /\ shown' \in 0 .. session' /\ session' > 0
          /\ failures' \in Nat /\ reports' \in [Sessions -> Nat]
          /\ at' \in {"sleep", "parse", "read", "reset", "emit"}
      BY <1>1, <2>1, CountIsNat DEF ReportTyped
    <3>2. active' \in BOOLEAN
      BY <2>1
    <3>3. Unborn'
      BY <1>1, <2>1, CountIsNat, SMTT(90) DEF ReportTyped, Unborn, Sessions
    <3> QED
      BY <3>1, <3>2, <3>3, SMTT(90) DEF ReportTyped
  <2>3. session' \in Sessions /\ Count'[session'] = 0
    BY <1>1, <2>1, CountIsNat, SMTT(90) DEF ReportTyped, Unborn, Count, Sessions
  <2>4. LiveBound'
    BY <1>1, <2>1, <2>3, CountIsNat, SMTT(90) DEF LiveBound, ReportTyped
  <2> QED
    BY <1>2, <2>2, <2>4 DEF ReportInv
<1>4. CASE End
  <2>1. session' = session /\ active' = FALSE
    BY <1>4 DEF End
  <2>2. ReportTyped' /\ Unborn' /\ LiveBound'
    BY <1>1, <2>1, Zenon DEF ReportTyped, Unborn, LiveBound
  <2> QED
    BY <1>2, <2>2 DEF ReportInv
<1> QED
  BY <1>3, <1>4

(* dumpsys is run. *)
LEMMA SleepReportInv ==
    ASSUME ReportInv, ConstantsOK, PollSleep PROVE ReportInv'
<1>1. /\ ReportTyped /\ Unborn /\ LiveBound /\ CountBound
      /\ at = "sleep" /\ at' = "parse"
      /\ UNCHANGED <<session, active, g_mp_state, reports>>
  BY DEF ReportInv, PollSleep, appVars
<1>2. PICK n \in 0 .. Len(Listing) :
         /\ out' = SubSeq(Listing, 1, n)
         /\ shown' = IF active /\ n = Len(Listing) THEN session ELSE 0
         /\ failures' = IF n < Len(Listing) THEN failures + 1 ELSE failures
  BY DEF PollSleep
<1>3. Len(Listing) \in Nat /\ n \in Nat /\ n <= Len(Listing)
  BY ListingFacts
<1>4. /\ Count' = Count /\ Count \in [Sessions -> Nat]
      /\ Credit' = Credit /\ Credit \in {0, 1} /\ (active => session \in Sessions)
      /\ failures \in Nat /\ failures' \in {failures, failures + 1}
  BY <1>1, <1>2, CountIsNat DEF Count, Credit, ReportTyped
<1>5. ReportTyped' /\ Unborn'
  BY <1>1, <1>2, <1>4 DEF ReportTyped, Unborn
<1>6. AnswerTrue'
  <2>1. shown' # 0 <=> (active /\ n = Len(Listing))
    BY <1>1, <1>2 DEF ReportTyped
  <2>2. parse_dumpsys(out') = "active" <=> (active /\ n = Len(Listing))
    BY <1>2, CutFacts
  <2> QED
    BY <1>1, <2>1, <2>2 DEF AnswerTrue, parse_dumpsys
<1>7. CountBound'
  BY <1>1, <1>4 DEF CountBound
<1>8. ShownBound' /\ LiveBound'
  <2>1. active => Count[session] <= failures + Credit
    BY <1>1 DEF LiveBound
  <2>2. shown' # 0 => active /\ shown' = session /\ failures' = failures
    BY <1>2, <1>3
  <2>3. ShownBound'
    BY <1>4, <2>1, <2>2 DEF ShownBound
  <2>4. active /\ shown' # session => failures' = failures + 1
    BY <1>2, <1>3
  <2>5. LiveBound'
    BY <1>1, <1>4, <2>1, <2>4 DEF LiveBound
  <2> QED
    BY <2>3, <2>5
<1> QED
  BY <1>5, <1>6, <1>7, <1>8, SMTT(90) DEF ReportInv

(* Its output is parsed: only the change to active goes on to a report. *)
LEMMA ParseReportInv ==
    ASSUME ReportInv, ConstantsOK, PollParse PROVE ReportInv'
<1>1. /\ ReportTyped /\ Unborn /\ LiveBound /\ ShownBound /\ CountBound
      /\ at = "parse" /\ (parse_dumpsys(out) = "active" <=> shown # 0)
      /\ g_mp_state' = parse_dumpsys(out)
      /\ at' = IF shown # 0 /\ g_mp_state # "active" THEN "read" ELSE "sleep"
      /\ UNCHANGED <<session, active, failures, reports, shown>>
  BY DEF ReportInv, PollParse, appVars, AnswerTrue
<1>2. /\ Count \in [Sessions -> Nat] /\ Credit \in {0, 1} /\ (active => session \in Sessions)
      /\ (shown # 0 => shown \in Sessions) /\ failures \in Nat
      /\ Credit = 1 <=> g_mp_state = "active"
      /\ Credit' = IF shown # 0 THEN 1 ELSE 0
  BY <1>1, CountIsNat DEF Credit, ReportTyped
<1>3. /\ Count' \in [Sessions -> Nat]
      /\ \A s \in Sessions : Count'[s] = IF s = shown /\ at' = "read" THEN Count[s] + 1 ELSE Count[s]
  BY <1>1, <1>2 DEF Count, ReportTyped
<1>4. ReportTyped' /\ Unborn'
  BY <1>1 DEF ReportTyped, Unborn
<1>5. AnswerTrue'
  BY <1>1 DEF AnswerTrue
<1>6. ShownBound'
  BY <1>1 DEF ShownBound
<1>7. CountBound'
  BY <1>1, <1>2, <1>3 DEF CountBound, ShownBound
<1>8. LiveBound'
  <2> SUFFICES ASSUME active PROVE Count'[session] <= failures + Credit'
    BY <1>1 DEF LiveBound
  <2>1. CASE shown = 0
    <3>1. session # shown /\ Credit' = 0 /\ at' = "sleep"
      BY <1>1, <1>2, <2>1 DEF ReportTyped
    <3>2. Count'[session] = Count[session] /\ Count[session] \in Nat
      BY <1>2, <1>3, <3>1
    <3>3. Count[session] = 0 \/ Count[session] < failures + Credit
      BY <1>1, <3>1 DEF LiveBound
    <3> QED
      BY <1>2, <3>1, <3>2, <3>3
  <2>2. CASE shown # 0 /\ shown # session
    <3>1. Count'[session] = Count[session] /\ Count[session] \in Nat /\ Credit' = 1
      BY <1>2, <1>3, <2>2
    <3>2. Count[session] = 0 \/ Count[session] < failures + Credit
      BY <1>1, <2>2 DEF LiveBound
    <3> QED
      BY <1>2, <3>1, <3>2
  <2>3. CASE shown # 0 /\ shown = session
    <3>1. Count[session] <= failures + Credit /\ Count[session] \in Nat /\ Credit' = 1
      BY <1>1, <1>2, <2>3, SMTT(90) DEF LiveBound
    <3>2. \/ at' = "read" /\ Credit = 0 /\ Count'[session] = Count[session] + 1
          \/ Count'[session] = Count[session]
      BY <1>1, <1>2, <1>3, <2>3, SMTT(90)
    <3> QED
      BY <1>2, <3>1, <3>2, SMTT(90)
  <2> QED
    BY <2>1, <2>2, <2>3
<1> QED
  BY <1>4, <1>5, <1>6, <1>7, <1>8 DEF ReportInv

(* The report is made. *)
LEMMA EmitReportInv ==
    ASSUME ReportInv, ConstantsOK, PollRead \/ PollReset \/ PollEmit PROVE ReportInv'
<1>1. /\ ReportTyped /\ Unborn /\ LiveBound /\ CountBound
      /\ at \in {"read", "reset", "emit"} /\ shown # 0 /\ g_mp_state = "active"
      /\ UNCHANGED <<session, active, failures, shown, g_mp_state>>
  BY DEF ReportInv, PollRead, PollReset, PollEmit, appVars, AnswerTrue
<1>2. shown \in Sessions /\ shown <= session /\ Credit' = Credit /\ session \in Nat
  BY <1>1, CountIsNat, SMTT(90) DEF Credit, ReportTyped
<1>3. \/ at' \in {"reset", "emit"} /\ reports' = reports
      \/ at = "emit" /\ at' = "sleep" /\ reports' = [reports EXCEPT ![shown] = @ + 1]
  BY DEF PollRead, PollReset, PollEmit
<1>4. Count' = Count
  BY <1>1, <1>2, <1>3 DEF Count, ReportTyped
<1>5. ReportTyped'
  BY <1>1, <1>2, <1>3 DEF ReportTyped
<1>6. Unborn'
  <2> SUFFICES ASSUME NEW s \in Sessions, s > session PROVE reports'[s] = 0
    BY <1>1 DEF Unborn
  <2>1. s # shown /\ s \in Nat /\ reports[s] = 0
    BY <1>1, <1>2, ReportTyped, CountIsNat DEF Unborn, ReportTyped, Sessions
  <2> QED
    BY <1>1, <1>3, <2>1 DEF ReportTyped
<1>7. AnswerTrue' /\ ShownBound'
  BY <1>1, <1>3 DEF AnswerTrue, ShownBound
<1>8. LiveBound' /\ CountBound'
  BY <1>1, <1>2, <1>3, <1>4, SMTT(90) DEF LiveBound, CountBound
<1> QED
  BY <1>5, <1>6, <1>7, <1>8, SMTT(90) DEF ReportInv

(* Before the first poll nothing is reported. *)
LEMMA InitReportInv == ConstantsOK /\ Init => ReportInv
<1> SUFFICES ASSUME ConstantsOK, Init PROVE ReportInv
  OBVIOUS
<1>1. ReportTyped
  <2>1. /\ session = 0 /\ active = FALSE /\ shown = 0 /\ failures = 0 /\ at = "sleep"
        /\ reports = [s \in Sessions |-> 0] /\ MaxSessions \in Nat
    BY DEF Init, ConstantsOK
  <2>2. active \in BOOLEAN /\ (active => session > 0)
    BY <2>1, Zenon
  <2> QED
    BY <2>1, <2>2 DEF ReportTyped
<1>2. CountBound
  BY DEF Init, CountBound, Count
<1> QED
  BY <1>1, <1>2 DEF ReportInv, Init, Unborn, AnswerTrue, LiveBound, ShownBound

(* Every step keeps the number of reports within its bound; the Binder     *)
(* hooks do not touch it.                                                  *)
LEMMA NextReportInv == ConstantsOK /\ ReportInv /\ [Next]_vars => ReportInv'
<1>1. ASSUME ReportInv,
             UNCHANGED vars \/ \E t \in Threads : Transaction(t) \/ Add(t) \/ Insert(t)
      PROVE  ReportInv'
  <2>1. UNCHANGED <<session, active, pollVars>>
    BY <1>1 DEF vars, appVars, Transaction, Add, Insert
  <2>2. Count' = Count /\ Credit' = Credit
    BY <2>1 DEF pollVars, Count, Credit
  <2> QED
    BY <1>1, <2>1, <2>2, SMTT(90) DEF pollVars, ReportInv, ReportTyped, Unborn, AnswerTrue, LiveBound,
          ShownBound, CountBound
<1> QED
  BY <1>1, AppReportInv, SleepReportInv, ParseReportInv, EmitReportInv, SMTT(90) DEF Next

(* However sessions begin and end between the polls and wherever the       *)
(* output is cut, a session is reported once, and once more for every      *)
(* failure.                                                                *)
THEOREM SessionsReportedOnce == ASSUME ConstantsOK PROVE Spec => []ReportedOncePerAnswer
<1>1. ReportInv => ReportedOncePerAnswer
  <2> SUFFICES ASSUME ReportInv, NEW s \in Sessions PROVE reports[s] <= 1 + failures
    BY DEF ReportedOncePerAnswer
  <2>1. Count[s] \in {reports[s], reports[s] + 1} /\ reports[s] \in Nat /\ failures \in Nat
    BY DEF ReportInv, ReportTyped, Count
  <2>2. Count[s] <= 1 + failures
    BY DEF ReportInv, CountBound
  <2> QED
    BY <2>1, <2>2
<1> QED
  BY <1>1, InitReportInv, NextReportInv, PTL DEF Spec

-----------------------------------------------------------------------------
(* Sessions that a poll has seen *)

(* The answers of a run of active ones show rising sessions, the first of  *)
(* which is reported or is being reported.                                 *)
SeenInv ==
    /\ seen \subseteq 1 .. session
    /\ g_mp_state = "active" <=> seen # {}
    /\ at = "parse" /\ shown # 0 => \A s \in seen : s <= shown
    /\ at \in {"read", "reset", "emit"} => seen = {shown}
    /\ at \in {"sleep", "parse"} /\ seen # {} =>
          \E f \in seen : reports[f] > 0 /\ \A s \in seen : f <= s

(* Nothing has been seen before the first poll. *)
LEMMA InitSeenInv == Init => SeenInv
  BY DEF Init, SeenInv

(* The only step that adds to what was seen is the parsing of an answer,   *)
(* and the session it shows is not an older one.                           *)
LEMMA NextSeenInv ==
    ASSUME ConstantsOK, ReportInv, SeenInv, [Next]_vars PROVE SeenInv'
<1>1. /\ session \in Nat /\ shown \in 0 .. session /\ reports \in [Sessions -> Nat]
      /\ (active => session > 0) /\ MaxSessions \in Nat /\ session <= MaxSessions
      /\ seen \subseteq 1 .. session
  BY DEF ReportInv, ReportTyped, SeenInv, ConstantsOK
<1>2. CASE UNCHANGED vars \/ (\E t \in Threads : Transaction(t) \/ Add(t) \/ Insert(t)) \/ End
  <2>1. UNCHANGED <<session, pollVars>>
    BY <1>2 DEF vars, appVars, Transaction, Add, Insert, End
  <2> QED
    BY <2>1 DEF SeenInv, pollVars
<1>3. CASE Begin
  BY <1>1, <1>3, SMTT(90) DEF Begin, SeenInv, pollVars
<1>4. CASE PollSleep
  <2>1. /\ at = "sleep" /\ at' = "parse" /\ (shown' # 0 => shown' = session)
        /\ UNCHANGED <<session, g_mp_state, reports, seen>>
    BY <1>4 DEF PollSleep, appVars
  <2> QED
    BY <1>1, <2>1 DEF SeenInv
<1>5. CASE PollParse
  <2>1. /\ at = "parse" /\ (parse_dumpsys(out) = "active" <=> shown # 0)
        /\ g_mp_state' = parse_dumpsys(out)
        /\ at' = IF shown # 0 /\ g_mp_state # "active" THEN "read" ELSE "sleep"
        /\ seen' = IF shown = 0 THEN {} ELSE IF g_mp_state = "active" THEN seen \cup {shown} ELSE {shown}
        /\ UNCHANGED <<session, reports, shown>>
    BY <1>5 DEF ReportInv, PollParse, appVars, AnswerTrue
  <2>2. seen' \subseteq 1 .. session' /\ (g_mp_state' = "active" <=> seen' # {})
    <3>1. shown # 0 => shown \in 1 .. session
      BY <1>1
    <3>2. seen' \subseteq 1 .. session'
      BY <1>1, <2>1, <3>1, Zenon
    <3>3. g_mp_state' = "active" <=> seen' # {}
      BY <2>1, Zenon
    <3> QED
      BY <3>2, <3>3
  <2>3. at' = "read" => seen' = {shown'}
    BY <2>1
  <2>4. ASSUME at' = "sleep", seen' # {}
        PROVE  \E f \in seen' : reports'[f] > 0 /\ \A s \in seen' : f <= s
    <3>1. g_mp_state = "active" /\ shown # 0 /\ seen' = seen \cup {shown} /\ seen # {}
      BY <2>1, <2>4 DEF SeenInv
    <3>2. PICK f \in seen : reports[f] > 0 /\ \A s \in seen : f <= s
      BY <2>1, <3>1 DEF SeenInv
    <3>3. f <= shown
      BY <2>1, <3>1, SMTT(90) DEF SeenInv
    <3> QED
      BY <2>1, <3>1, <3>2, <3>3, SMTT(90)
  <2> QED
    BY <2>1, <2>2, <2>3, <2>4, SMTT(90) DEF SeenInv
<1>6. CASE PollRead \/ PollReset
  BY <1>6 DEF PollRead, PollReset, SeenInv, appVars
<1>7. CASE PollEmit
  <2>1. /\ at' = "sleep" /\ reports' = [reports EXCEPT ![shown] = @ + 1]
        /\ seen = {shown} /\ UNCHANGED <<session, g_mp_state, shown, seen>>
    BY <1>7 DEF PollEmit, SeenInv, appVars
  <2>2. shown \in Sessions
    BY <1>1, <2>1 DEF Sessions
  <2>3. reports'[shown] > 0
    BY <1>1, <2>1, <2>2
  <2> QED
    BY <1>1, <2>1, <2>2, <2>3, SMTT(90) DEF SeenInv, Sessions
<1> QED
  BY <1>2, <1>3, <1>4, <1>5, <1>6, <1>7, SMTT(90) DEF Next

(* A session that begins a run of active answers is reported by the time   *)
(* the polling thread sleeps again, whatever began or ended meanwhile.     *)
THEOREM FirstSeenIsReported == ASSUME ConstantsOK PROVE Spec => []SeenIsReported
<1>1. ReportInv /\ SeenInv => SeenIsReported
  <2> SUFFICES ASSUME ReportInv, SeenInv, at = "sleep", seen # {} PROVE reports[Min(seen)] > 0
    BY DEF SeenIsReported
  <2>1. PICK f \in seen : reports[f] > 0 /\ \A s \in seen : f <= s
    BY DEF SeenInv
  <2>2. seen \subseteq Nat
    BY DEF SeenInv, ReportInv, ReportTyped
  <2>3. Min(seen) \in seen /\ \A s \in seen : Min(seen) <= s
    BY <2>1 DEF Min
  <2>4. Min(seen) = f
    <3>1. Min(seen) \in Nat /\ f \in Nat /\ Min(seen) <= f /\ f <= Min(seen)
      BY <2>1, <2>2, <2>3, Zenon
    <3> QED
      BY <3>1
  <2> QED
    BY <2>1, <2>4
<1> QED
  BY <1>1, InitReportInv, NextReportInv, InitSeenInv, NextSeenInv, PTL DEF Spec

(* Both together: the reports are the sessions that the polls have seen.   *)
THEOREM SessionsAreReported == ASSUME ConstantsOK PROVE Spec => []SessionsReported
<1>1. ReportedOncePerAnswer /\ SeenIsReported => SessionsReported
  BY DEF SessionsReported
<1> QED
  BY <1>1, SessionsReportedOnce, FirstSeenIsReported, PTL
=============================================================================
