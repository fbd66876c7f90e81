--------------------------- MODULE SimulationProofs ---------------------------
(***************************************************************************)
(* Proofs about Simulation, for every circuit (Words, Memories, NextReg,   *)
(* NextMem, Throws, Overlay), every history size and every bound.          *)
(***************************************************************************)
EXTENDS Simulation, SequenceTheorems, TLAPS

USE SimulationAssumption DEF SimulationAssumption

\* What the next three theorems need: the caches are right when they count as
\* valid, the values are settled when nothing is said to have changed, and the
\* Switch has its original value until it is first written.
Settling ==
  /\ valid => cached = Current /\ values = Current
  /\ ~dirty => values = Current
  /\ ~written => sw = Zero

\* A Switch an entry knows as written has been written since.
WrittenStays ==
  /\ \A k \in DOMAIN entries : entries[k].written => written
  /\ saved # None /\ saved.written => written

\* The cycles an advance under way has made are not yet in `cycle`.
Counting ==
  /\ call.left <= call.count
  /\ ~faulted => edges = cycle + (IF Idle THEN 0 ELSE call.count - call.left)

IInv == TypeOK /\ Settling /\ HistoryIsSettled /\ WrittenStays /\ CursorInHistory /\ Counting

-----------------------------------------------------------------------------

LEMMA CurrentType == ASSUME TypeOK PROVE Current \in Drives
  BY DEF TypeOK, Current, Drives

LEMMA SnapshotType == ASSUME TypeOK PROVE EngineSnapshot \in Entry
  BY DEF TypeOK, EngineSnapshot, Entry

LEMMA InitIInv == Init => IInv
<1> SUFFICES ASSUME Init PROVE IInv
  OBVIOUS
<1>1. Current \in Drives
  BY DEF Init, Current, Drives
<1>2. EngineSnapshot \in Entry
  BY <1>1 DEF Init, EngineSnapshot, Entry
<1>3. entries \in Seq(Entry) /\ Len(entries) = (IF Recording THEN 1 ELSE 0)
      /\ \A k \in DOMAIN entries : k = 1 /\ entries[k] = EngineSnapshot
  BY <1>2 DEF Init
<1>4. TypeOK
  <2>1. call \in [left : Nat, count : Nat, records : BOOLEAN]
    BY DEF Init
  <2>2. index \in Int /\ entries \in Seq(Entry)
    BY <1>3 DEF Init
  <2> QED BY <1>1, <2>1, <2>2 DEF Init, TypeOK
<1>5. Settling
  BY DEF Init, Settling
<1>6. HistoryIsSettled
  BY <1>3 DEF Init, HistoryIsSettled, EntryOK, EngineSnapshot, Current
<1>7. WrittenStays
  BY <1>3 DEF Init, WrittenStays, EngineSnapshot
<1>8. CursorInHistory
  BY <1>3 DEF Init, CursorInHistory, Recording
<1>9. Counting
  BY DEF Init, Counting, Idle
<1> QED BY <1>4, <1>5, <1>6, <1>7, <1>8, <1>9 DEF IInv

-----------------------------------------------------------------------------
(* What the two helpers of the steps do. *)

\* Every entry after a record was there before, or is the new one, and the
\* cursor is on the new one.
LEMMA RecordLemma ==
  ASSUME TypeOK, CursorInHistory, NEW e \in Entry, Record(e)
  PROVE  /\ entries' \in Seq(Entry) /\ index' \in Int
         /\ CursorInHistory'
         /\ \A k \in DOMAIN entries' :
              entries'[k] = e \/ \E j \in DOMAIN entries : entries'[k] = entries[j]
         /\ entries' # entries => GrowsAtCursor
<1>1. CASE ~Recording
  BY <1>1 DEF Record, TypeOK, CursorInHistory
<1>2. CASE Recording
  <2> DEFINE kept == SubSeq(entries, 1, index + 1)
             all == Append(kept, e)
  <2>1. /\ Len(entries) \in 1 .. HistorySize /\ index \in 0 .. Len(entries) - 1
        /\ entries \in Seq(Entry)
    BY <1>2 DEF CursorInHistory, TypeOK
  <2>2. /\ kept \in Seq(Entry) /\ Len(kept) = index + 1
        /\ \A k \in 1 .. index + 1 : kept[k] = entries[k]
    <3>1. 1 \in 1 .. Len(entries) + 1 /\ index + 1 \in 0 .. Len(entries)
      BY <2>1
    <3> QED BY <2>1, <3>1, SubSeqProperties
  <2>3. /\ all \in Seq(Entry) /\ Len(all) = index + 2 /\ all # <<>>
        /\ \A k \in 1 .. index + 1 : all[k] = entries[k]
        /\ all[index + 2] = e
    <3> HIDE DEF kept
    <3> QED BY <2>1, <2>2, AppendProperties
  <2>4. Recorded(e) = IF Len(all) > HistorySize THEN Tail(all) ELSE all
    BY DEF Recorded
  <2> HIDE DEF all
  <2>5. /\ Tail(all) \in Seq(Entry) /\ Len(Tail(all)) = index + 1
        /\ \A k \in 1 .. index + 1 : Tail(all)[k] = all[k + 1]
    BY <2>1, <2>3, HeadTailProperties
  <2>6. entries' = Recorded(e) /\ index' = Len(entries') - 1
    BY <1>2 DEF Record
  <2>7. CASE Len(all) > HistorySize
    <3>1. entries' = Tail(all) /\ index' = index
      BY <2>1, <2>4, <2>5, <2>6, <2>7
    <3>2. \A k \in DOMAIN entries' :
            entries'[k] = e \/ \E j \in DOMAIN entries : entries'[k] = entries[j]
      <4> TAKE k \in DOMAIN entries'
      <4>1. k \in 1 .. index + 1 /\ entries'[k] = all[k + 1]
        BY <3>1, <2>5
      <4>2. CASE k = index + 1
        BY <4>1, <4>2, <2>3, <2>1
      <4>3. CASE k # index + 1
        <5>1. k + 1 \in 1 .. index + 1 /\ k + 1 \in DOMAIN entries
          BY <4>1, <4>3, <2>1
        <5> QED BY <4>1, <5>1, <2>3
      <4> QED BY <4>2, <4>3
    <3>3. GrowsAtCursor
      <4>1. \A k \in 1 .. index : entries'[k] = entries[k + 1]
        <5> TAKE k \in 1 .. index
        <5>1. k \in 1 .. index + 1 /\ k + 1 \in 1 .. index + 1
          BY <2>1
        <5> QED BY <5>1, <3>1, <2>3, <2>5
      <4>2. Len(entries') = index + 2 - 1 /\ index + 1 - 1 = index
        BY <2>1, <2>5, <3>1
      <4> QED BY <4>1, <4>2 DEF GrowsAtCursor
    <3> QED BY <1>2, <2>1, <2>3, <2>5, <2>6, <2>7, <3>1, <3>2, <3>3 DEF CursorInHistory
  <2>8. CASE ~(Len(all) > HistorySize)
    <3>1. entries' = all /\ index' = index + 1
      BY <2>1, <2>3, <2>4, <2>6, <2>8
    <3>2. \A k \in DOMAIN entries' :
            entries'[k] = e \/ \E j \in DOMAIN entries : entries'[k] = entries[j]
      <4> TAKE k \in DOMAIN entries'
      <4>1. k \in 1 .. index + 2
        BY <3>1, <2>3
      <4>2. CASE k = index + 2
        BY <4>2, <2>3, <3>1
      <4>3. CASE k # index + 2
        BY <4>1, <4>3, <2>1, <2>3, <3>1
      <4> QED BY <4>2, <4>3
    <3>3. GrowsAtCursor
      <4>1. \A k \in 1 .. index + 1 - 0 : entries'[k] = entries[k + 0]
        BY <2>1, <2>3, <3>1
      <4>2. Len(entries') = index + 2 - 0
        BY <2>1, <2>3, <3>1
      <4> QED BY <4>1, <4>2 DEF GrowsAtCursor
    <3> QED BY <1>2, <2>1, <2>3, <2>6, <2>8, <3>1, <3>2, <3>3 DEF CursorInHistory
  <2> QED BY <2>7, <2>8
<1> QED BY <1>1, <1>2

\* The drive goes back to the entry's, so what the entry shows is settled.
LEMMA RestoreLemma ==
  ASSUME TypeOK, Settling, NEW e \in Entry, EntryOK(e), e.written => written, RestoreDrive(e)
  PROVE  /\ Current' = e.values
         /\ inp' \in Words /\ sw' \in Words /\ reg' \in Words /\ mem' \in Memories
         /\ edges' = e.edges /\ edges' \in Nat /\ written' = written /\ flash' = flash
         /\ ~written => sw' = Zero
<1>1. sw' = e.sw /\ (~written => sw' = Zero)
  BY DEF RestoreDrive, Settling, EntryOK
<1>2. /\ inp' = e.inp /\ reg' = e.reg /\ mem' = e.mem /\ edges' = e.edges
      /\ written' = written /\ flash' = flash
  BY DEF RestoreDrive
<1>3. e.inp \in Words /\ e.sw \in Words /\ e.reg \in Words /\ e.mem \in Memories
      /\ e.edges \in Nat
  BY DEF Entry
<1>4. Current' = e.values
  BY <1>1, <1>2 DEF Current, EntryOK
<1> QED BY <1>1, <1>2, <1>3, <1>4

-----------------------------------------------------------------------------
(* Every step keeps the invariant.  A step that leaves history alone keeps   *)
(* what is said of its entries by HistoryKept.                               *)

LEMMA HistoryKept ==
  ASSUME IInv, UNCHANGED <<entries, index, saved>>, written => written'
  PROVE  HistoryIsSettled' /\ WrittenStays' /\ CursorInHistory'
         /\ entries' \in Seq(Entry) /\ index' \in Int /\ saved' \in Entry \cup {None}
BY DEF IInv, TypeOK, HistoryIsSettled, WrittenStays, CursorInHistory, EntryOK

\* A step that records snapshot e of a settled state.
LEMMA HistoryRecorded ==
  ASSUME IInv, NEW e \in Entry, EntryOK(e), e.written => written', Record(e),
         UNCHANGED <<saved, written>>
  PROVE  HistoryIsSettled' /\ WrittenStays' /\ CursorInHistory'
         /\ entries' \in Seq(Entry) /\ index' \in Int /\ saved' \in Entry \cup {None}
<1>1. /\ entries' \in Seq(Entry) /\ index' \in Int
      /\ CursorInHistory'
      /\ \A k \in DOMAIN entries' :
           entries'[k] = e \/ \E j \in DOMAIN entries : entries'[k] = entries[j]
  BY RecordLemma DEF IInv
<1>2. HistoryIsSettled'
  BY <1>1 DEF IInv, HistoryIsSettled, EntryOK
<1>3. WrittenStays'
  BY <1>1 DEF IInv, WrittenStays
<1> QED BY <1>1, <1>2, <1>3 DEF IInv, TypeOK

LEMMA WriteKeeps ==
  ASSUME IInv,
         \/ \E v \in Words : SetInput(v) \/ SetSwitch(v) \/ SetRegister(v)
         \/ \E p \in Programs : SetMemory(p)
  PROVE  IInv'
<1>1. /\ valid' = FALSE /\ dirty' = TRUE /\ writes' \in Nat
      /\ UNCHANGED <<edges, values, cached, cycle, entries, index, saved, call, faulted>>
  BY DEF IInv, TypeOK, SetInput, SetSwitch, SetRegister, SetMemory, Written
<1>2. /\ inp' \in Words /\ sw' \in Words /\ reg' \in Words /\ mem' \in Memories
      /\ flash' \in Programs \cup {None} /\ written' \in BOOLEAN
      /\ written => written'
      /\ ~written' => sw' = Zero
  BY DEF IInv, TypeOK, Settling, SetInput, SetSwitch, SetRegister, SetMemory, Written
<1>3. HistoryIsSettled' /\ WrittenStays' /\ CursorInHistory'
  BY <1>1, <1>2, HistoryKept
<1>4. TypeOK'
  BY <1>1, <1>2 DEF IInv, TypeOK
<1>5. Settling' /\ Counting'
  BY <1>1, <1>2 DEF IInv, Settling, Counting, Idle
<1> QED BY <1>3, <1>4, <1>5 DEF IInv

LEMMA ReadKeeps == ASSUME IInv, Read PROVE IInv'
<1>1. Current' = Current /\ Current \in Drives
  BY CurrentType DEF IInv, Read, drive, Current
<1>2. Settled = Current /\ Observed = Current
  BY DEF IInv, Settling, Settled, Observed
<1>3. HistoryIsSettled' /\ WrittenStays' /\ CursorInHistory'
  BY HistoryKept DEF Read, drive
<1>4. TypeOK'
  BY <1>1, <1>2 DEF IInv, TypeOK, Read, drive
<1>5. Settling' /\ Counting'
  BY <1>1, <1>2 DEF IInv, Settling, Counting, Idle, Read, drive
<1> QED BY <1>3, <1>4, <1>5 DEF IInv

LEMMA AdvanceKeeps ==
  ASSUME IInv, NEW n \in TickCounts, NEW records \in BOOLEAN, Advance(n, records)
  PROVE  IInv'
<1>1. call' = [left |-> n, count |-> n, records |-> records] /\ n \in Nat /\ n > 0
  BY DEF Advance
<1>2. UNCHANGED <<drive, engine, shell, saved, faulted, writes>>
  BY DEF Advance
<1>3. HistoryIsSettled' /\ WrittenStays' /\ CursorInHistory'
  BY <1>2, HistoryKept DEF drive, shell
<1>4. TypeOK'
  BY <1>1, <1>2 DEF IInv, TypeOK, drive, engine, shell
<1>5. Settling' /\ Counting'
  BY <1>1, <1>2 DEF IInv, TypeOK, Settling, Counting, Idle, Current, drive, engine, shell, Advance
<1> QED BY <1>3, <1>4, <1>5 DEF IInv

LEMMA EdgeKeeps == ASSUME IInv, Edge PROVE IInv'
<1>1. Current \in Drives
  BY CurrentType DEF IInv
<1>2. NextReg(Current) \in Words /\ NextMem(Current) \in Memories
  BY <1>1
<1>3. /\ reg' \in Words /\ mem' \in Memories /\ edges' \in Nat
      /\ inp' = inp /\ sw' = sw /\ written' = written /\ flash' = flash
      /\ saved' = saved /\ faulted' = faulted /\ writes' = writes
      /\ values' = Current' /\ cached' = Current' /\ valid' = TRUE
  BY <1>2 DEF IInv, TypeOK, Edge
<1>4. Current' \in Drives /\ EngineSnapshot' \in Entry
  BY <1>3 DEF IInv, TypeOK, Current, EngineSnapshot, Drives, Entry
<1>5. EntryOK(EngineSnapshot') /\ (EngineSnapshot').written = written
  BY <1>3 DEF IInv, Settling, EngineSnapshot, EntryOK, Current
<1>6. /\ HistoryIsSettled' /\ WrittenStays' /\ CursorInHistory'
      /\ entries' \in Seq(Entry) /\ index' \in Int /\ saved' \in Entry \cup {None}
  <2>1. CASE Record(EngineSnapshot')
    BY <2>1, <1>3, <1>4, <1>5, HistoryRecorded
  <2>2. CASE UNCHANGED <<entries, index>>
    BY <2>2, <1>3, HistoryKept
  <2> QED BY <2>1, <2>2 DEF Edge
<1>7. /\ call' \in [left : Nat, count : Nat, records : BOOLEAN]
      /\ call'.left = call.left - 1 /\ call'.count = call.count
      /\ call.left \in Nat \ {0} /\ call.count \in Nat
  <2>1. call' = [call EXCEPT !.left = @ - 1] /\ call.left # 0
    BY DEF Edge, Idle
  <2>2. call \in [left : Nat, count : Nat, records : BOOLEAN]
    BY DEF IInv, TypeOK
  <2> QED BY <2>1, <2>2
<1>8. /\ cycle' = IF call.left = 1 THEN cycle + call.count ELSE cycle
      /\ cycle \in Nat /\ cycle' \in Nat /\ dirty' \in BOOLEAN
      /\ edges \in Nat /\ edges' = edges + 1
  <2>1. cycle' = IF call.left = 1 THEN cycle + call.count ELSE cycle
    BY DEF Edge
  <2>2. cycle \in Nat /\ edges \in Nat /\ edges' = edges + 1
    BY DEF IInv, TypeOK, Edge
  <2>3. dirty' \in BOOLEAN
    BY DEF IInv, TypeOK, Edge
  <2> QED BY <1>7, <2>1, <2>2, <2>3
<1>9. TypeOK'
  BY <1>3, <1>4, <1>6, <1>7, <1>8 DEF IInv, TypeOK
<1>10. Settling'
  BY <1>3 DEF IInv, Settling
<1>11. Counting'
  <2>1. call.left <= call.count /\ (~faulted => edges = cycle + (call.count - call.left))
    <3>1. ~Idle
      BY DEF Edge
    <3> QED BY <3>1 DEF IInv, Counting
  <2>2. call'.left <= call'.count
    BY <2>1, <1>7
  <2>3. ASSUME ~faulted'
        PROVE  edges' = cycle' + (IF call'.left = 0 THEN 0 ELSE call'.count - call'.left)
    <3>1. edges = cycle + (call.count - call.left)
      BY <2>1, <2>3, <1>3
    <3>2. CASE call.left = 1
      BY <3>1, <3>2, <1>7, <1>8
    <3>3. CASE call.left # 1
      BY <3>1, <3>3, <1>7, <1>8
    <3> QED BY <3>2, <3>3
  <2> QED BY <2>2, <2>3 DEF Counting, Idle
<1> QED BY <1>6, <1>9, <1>10, <1>11 DEF IInv

LEMMA EdgeThrowsKeeps == ASSUME IInv, EdgeThrows PROVE IInv'
<1>1. Current' = Current /\ Current \in Drives
  BY CurrentType DEF IInv, EdgeThrows, drive, Current
<1>2. HistoryIsSettled' /\ WrittenStays' /\ CursorInHistory'
  BY HistoryKept DEF EdgeThrows, drive, shell
<1>3. call' \in [left : Nat, count : Nat, records : BOOLEAN]
      /\ call'.left = 0 /\ call'.count = call.count /\ call.count \in Nat
  BY DEF IInv, TypeOK, EdgeThrows
<1>4. TypeOK'
  BY <1>1, <1>3 DEF IInv, TypeOK, EdgeThrows, drive, shell
<1>5. Settling' /\ Counting'
  BY <1>1, <1>3 DEF IInv, Settling, Counting, Idle, EdgeThrows, drive, shell
<1> QED BY <1>2, <1>4, <1>5 DEF IInv

LEMMA RecordNowKeeps == ASSUME IInv, 0 \notin TickCounts, RecordNow PROVE IInv'
<1>1. dirty = FALSE /\ dirty' = FALSE /\ values = Current
      /\ UNCHANGED <<drive, engine, cycle, saved, call, faulted, writes>>
  BY DEF IInv, TypeOK, Settling, RecordNow
<1>2. EngineSnapshot \in Entry /\ EntryOK(EngineSnapshot) /\ EngineSnapshot.written = written
  BY <1>1, SnapshotType DEF IInv, Settling, EngineSnapshot, EntryOK, Current
<1>3. Record(EngineSnapshot) /\ UNCHANGED <<saved, written>>
  BY <1>1 DEF RecordNow, drive
<1>4. /\ HistoryIsSettled' /\ WrittenStays' /\ CursorInHistory'
      /\ entries' \in Seq(Entry) /\ index' \in Int
  BY <1>2, <1>3, HistoryRecorded
<1>5. TypeOK'
  BY <1>1, <1>4 DEF IInv, TypeOK, drive, engine
<1>6. Settling' /\ Counting'
  BY <1>1 DEF IInv, Settling, Counting, Idle, Current, drive, engine
<1> QED BY <1>4, <1>5, <1>6 DEF IInv

LEMMA ResetKeeps == ASSUME IInv, Reset PROVE IInv'
<1>1. /\ inp' \in Words /\ sw' \in Words /\ reg' \in Words /\ flash' \in Programs \cup {None}
      /\ written' = written /\ saved' = saved /\ sw' = sw /\ cached' = cached
      /\ written \in BOOLEAN
      /\ edges' = 0 /\ cycle' = 0 /\ dirty' = FALSE /\ valid' = FALSE /\ faulted' = FALSE
      /\ call' = call /\ call.left = 0 /\ writes' = writes
      /\ values' = Current'
  BY DEF IInv, TypeOK, Reset, Idle
<1>2. mem' \in Memories
  BY DEF IInv, TypeOK, Reset
<1>3. Current' \in Drives /\ EngineSnapshot' \in Entry
  BY <1>1, <1>2 DEF Current, EngineSnapshot, Drives, Entry
<1>4. EntryOK(EngineSnapshot') /\ (EngineSnapshot').written = written
  BY <1>1 DEF IInv, Settling, EngineSnapshot, EntryOK, Current
<1>5. /\ entries' \in Seq(Entry) /\ Len(entries') = (IF Recording THEN 1 ELSE 0)
      /\ index' = Len(entries') - 1
      /\ ~Recording => entries' = <<>>
      /\ \A k \in DOMAIN entries' : entries'[k] = EngineSnapshot'
  <2>1. entries' = IF Recording THEN <<EngineSnapshot'>> ELSE <<>>
    BY DEF Reset
  <2>2. index' = Len(entries') - 1
    BY DEF Reset
  <2> QED BY <1>3, <2>1, <2>2
<1>6. CursorInHistory'
  BY <1>5 DEF CursorInHistory, Recording
<1>7. HistoryIsSettled' /\ WrittenStays'
  BY <1>1, <1>4, <1>5 DEF IInv, HistoryIsSettled, WrittenStays, EntryOK
<1>8. TypeOK'
  <2>1. index' \in Int
    BY <1>5
  <2>2. call' \in [left : Nat, count : Nat, records : BOOLEAN] /\ writes' \in Nat
        /\ saved' \in Entry \cup {None} /\ cached' \in Drives \cup {None}
    BY <1>1 DEF IInv, TypeOK
  <2> QED BY <1>1, <1>2, <1>3, <1>5, <2>1, <2>2 DEF TypeOK
<1>9. Settling' /\ Counting'
  BY <1>1 DEF IInv, Settling, Counting, Idle
<1> QED BY <1>6, <1>7, <1>8, <1>9 DEF IInv

LEMMA SeekToKeeps == ASSUME IInv, NEW i \in Int, SeekTo(i) PROVE IInv'
<1> DEFINE e == entries[i + 1]
<1>1. i \in 0 .. Len(entries) - 1 /\ RestoreDrive(e)
  BY DEF SeekTo
<1>2. i + 1 \in DOMAIN entries /\ e \in Entry /\ entries \in Seq(Entry)
  BY <1>1 DEF IInv, TypeOK
<1>3. EntryOK(e) /\ (e.written => written)
  BY <1>2 DEF IInv, HistoryIsSettled, WrittenStays
<1>4. e.values \in Drives
  BY <1>2 DEF Entry
<1>5. /\ values' = e.values /\ valid' = FALSE /\ dirty' = FALSE /\ cycle' = e.edges
      /\ index' = i /\ faulted' = FALSE /\ call.left = 0
      /\ UNCHANGED <<cached, entries, saved, call, writes>>
  BY DEF SeekTo, Idle
<1> HIDE DEF e
<1>6. /\ Current' = e.values
      /\ inp' \in Words /\ sw' \in Words /\ reg' \in Words /\ mem' \in Memories
      /\ edges' = e.edges /\ edges' \in Nat /\ written' = written /\ flash' = flash
      /\ ~written => sw' = Zero
  BY <1>1, <1>2, <1>3, RestoreLemma DEF IInv
<1>7. CursorInHistory'
  BY <1>1, <1>5 DEF IInv, CursorInHistory
<1>8. HistoryIsSettled' /\ WrittenStays'
  BY <1>5, <1>6 DEF IInv, HistoryIsSettled, WrittenStays, EntryOK
<1>9. TypeOK'
  BY <1>4, <1>5, <1>6, <1>1 DEF IInv, TypeOK
<1>10. Settling' /\ Counting'
  BY <1>5, <1>6 DEF IInv, Settling, Counting, Idle
<1> QED BY <1>7, <1>8, <1>9, <1>10 DEF IInv

LEMMA SnapshotKeeps == ASSUME IInv, Snapshot PROVE IInv'
<1>1. /\ values' = Settled /\ dirty' = FALSE /\ valid' = (valid \/ dirty)
      /\ cached' = (IF dirty /\ ~valid THEN Current ELSE cached)
      /\ saved' = [EngineSnapshot EXCEPT !.values = Settled]
      /\ UNCHANGED <<drive, edges, cycle, entries, index, call, faulted, writes>>
  BY DEF Snapshot
<1>2. Current' = Current /\ Current \in Drives
  BY <1>1, CurrentType DEF IInv, Current, drive
<1>3. Settled = Current
  BY DEF IInv, Settling, Settled
<1>4. saved' = [values |-> Current, inp |-> inp, sw |-> sw, written |-> written, reg |-> reg,
                mem |-> mem, edges |-> edges]
  BY <1>1, <1>3 DEF EngineSnapshot
<1>5. saved' \in Entry /\ EntryOK(saved') /\ (saved').written = written
  BY <1>2, <1>4 DEF IInv, TypeOK, Settling, Entry, EntryOK, Current
<1>6. HistoryIsSettled' /\ WrittenStays' /\ CursorInHistory'
  BY <1>1, <1>5 DEF IInv, HistoryIsSettled, WrittenStays, CursorInHistory, EntryOK, drive
<1>7. cached' \in Drives \cup {None} /\ valid' \in BOOLEAN
  BY <1>1, <1>2 DEF IInv, TypeOK
<1>8. TypeOK'
  BY <1>1, <1>2, <1>3, <1>5, <1>7 DEF IInv, TypeOK, drive
<1>9. Settling'
  BY <1>1, <1>2, <1>3 DEF IInv, TypeOK, Settling, drive
<1>10. Counting'
  BY <1>1 DEF IInv, Counting, Idle
<1> QED BY <1>6, <1>8, <1>9, <1>10 DEF IInv

LEMMA RestoreKeeps == ASSUME IInv, Restore PROVE IInv'
<1>1. /\ saved # None /\ RestoreDrive(saved) /\ call.left = 0
      /\ values' = Current' /\ cached' = Current' /\ valid' = TRUE /\ dirty' = FALSE
      /\ cycle' = saved.edges /\ faulted' = FALSE
      /\ UNCHANGED <<entries, index, saved, call, writes>>
  BY DEF Restore, Idle
<1>2. saved \in Entry /\ EntryOK(saved) /\ (saved.written => written)
  BY <1>1 DEF IInv, TypeOK, HistoryIsSettled, WrittenStays
<1>3. saved.values \in Drives
  BY <1>2 DEF Entry
<1>4. /\ Current' = saved.values
      /\ inp' \in Words /\ sw' \in Words /\ reg' \in Words /\ mem' \in Memories
      /\ edges' = saved.edges /\ edges' \in Nat /\ written' = written /\ flash' = flash
      /\ ~written => sw' = Zero
  BY <1>1, <1>2, RestoreLemma DEF IInv
<1>5. HistoryIsSettled' /\ WrittenStays' /\ CursorInHistory'
  BY <1>1, <1>4, HistoryKept
<1>6. TypeOK'
  BY <1>1, <1>3, <1>4 DEF IInv, TypeOK
<1>7. Settling' /\ Counting'
  BY <1>1, <1>4 DEF IInv, Settling, Counting, Idle
<1> QED BY <1>5, <1>6, <1>7 DEF IInv

LEMMA StutterKeeps == ASSUME IInv, UNCHANGED vars PROVE IInv'
  BY DEF IInv, TypeOK, Settling, HistoryIsSettled, EntryOK, WrittenStays, CursorInHistory,
         Counting, Idle, Current, vars, drive, engine, shell

LEMMA NextKeeps == ASSUME 0 \notin TickCounts, IInv, [Next]_vars PROVE IInv'
<1>1. CASE \/ \E v \in Words : SetInput(v) \/ SetSwitch(v) \/ SetRegister(v)
           \/ \E p \in Programs : SetMemory(p)
  BY <1>1, WriteKeeps
<1>2. CASE \E n \in TickCounts, records \in BOOLEAN : Advance(n, records)
  BY <1>2, AdvanceKeeps
<1>3. CASE \E i \in 0 .. Len(entries) - 1 : Seek(i)
  <2>1. PICK i \in 0 .. Len(entries) - 1 : SeekTo(i)
    BY <1>3 DEF Seek
  <2> QED BY <2>1, SeekToKeeps
<1>4. CASE StepBack \/ StepForward
  <2>1. index - 1 \in Int /\ index + 1 \in Int
    BY DEF IInv, TypeOK
  <2>2. SeekTo(index - 1) \/ SeekTo(index + 1)
    BY <1>4 DEF StepBack, StepForward
  <2> QED BY <2>1, <2>2, SeekToKeeps
<1>5. CASE Read
  BY <1>5, ReadKeeps
<1>6. CASE Edge
  BY <1>6, EdgeKeeps
<1>7. CASE EdgeThrows
  BY <1>7, EdgeThrowsKeeps
<1>8. CASE RecordNow
  BY <1>8, RecordNowKeeps
<1>9. CASE Reset
  BY <1>9, ResetKeeps
<1>10. CASE Snapshot
  BY <1>10, SnapshotKeeps
<1>11. CASE Restore
  BY <1>11, RestoreKeeps
<1>12. CASE UNCHANGED vars
  BY <1>12, StutterKeeps
<1> QED
  BY <1>1, <1>2, <1>3, <1>4, <1>5, <1>6, <1>7, <1>8, <1>9, <1>10, <1>11, <1>12 DEF Next

-----------------------------------------------------------------------------
(* Theorems.  tick(0) clears `dirty` without settling (RecordNow), so they   *)
(* are about callers that never tick by 0.                                   *)

\* The inductive invariant holds.
THEOREM InvariantHolds == ASSUME 0 \notin TickCounts PROVE Spec => []IInv
<1>1. IInv /\ [Next]_vars => IInv'
  BY NextKeeps
<1> QED BY InitIInv, <1>1, PTL DEF Spec

\* Every variable of EngineSimulation and its engine has its type.
THEOREM TypesHold == ASSUME 0 \notin TickCounts PROVE Spec => []TypeOK
<1>1. IInv => TypeOK
  BY DEF IInv
<1> QED BY InvariantHolds, <1>1, PTL

\* Reads settle first (simulation.ts, `dirty`): a read shows what the present
\* inputs, Switch and state settle to.
THEOREM ReadsSettleFirst == ASSUME 0 \notin TickCounts PROVE Spec => []ReadsAreSettled
<1>1. IInv => ReadsAreSettled
  BY DEF IInv, Settling, ReadsAreSettled, Observed, Settled
<1> QED BY InvariantHolds, <1>1, PTL

\* History (startHistory, record) and saved snapshots hold settled states.
THEOREM HistoryStaysSettled == ASSUME 0 \notin TickCounts PROVE Spec => []HistoryIsSettled
<1>1. IInv => HistoryIsSettled
  BY DEF IInv
<1> QED BY InvariantHolds, <1>1, PTL

\* The history cursor is on an entry, and history is within its size.
THEOREM CursorStaysInHistory == ASSUME 0 \notin TickCounts PROVE Spec => []CursorInHistory
<1>1. IInv => CursorInHistory
  BY DEF IInv
<1> QED BY InvariantHolds, <1>1, PTL

\* The Simulation and its engine count the same cycles, unless an advance threw.
THEOREM CycleCountsAgree == ASSUME 0 \notin TickCounts PROVE Spec => []CyclesAgree
<1>1. IInv => CyclesAgree
  BY DEF IInv, TypeOK, Counting, CyclesAgree, Idle
<1> QED BY InvariantHolds, <1>1, PTL

\* Recording drops only what lies ahead of the cursor and the oldest entry;
\* time travel drops nothing (record, seekTo).
THEOREM HistoryGrowsAtCursor ==
  ASSUME 0 \notin TickCounts PROVE Spec => HistoryOnlyGrowsAtCursor
<1>1. ASSUME IInv, [Next]_vars
      PROVE  [entries' # entries => GrowsAtCursor \/ (Len(entries') = 1 /\ cycle' = 0)]_vars
  <2> SUFFICES ASSUME entries' # entries
               PROVE  GrowsAtCursor \/ (Len(entries') = 1 /\ cycle' = 0)
    OBVIOUS
  <2>1. CASE Edge
    <3>1. Record(EngineSnapshot')
      BY <2>1 DEF Edge
    <3>2. Current \in Drives
      BY <1>1, CurrentType DEF IInv
    <3>3. EngineSnapshot' \in Entry
      <4> NextReg(Current) \in Words /\ NextMem(Current) \in Memories
        BY <3>2
      <4>1. inp' \in Words /\ sw' \in Words /\ reg' \in Words /\ mem' \in Memories
            /\ written' \in BOOLEAN /\ edges' \in Nat /\ values' = Current'
        BY <1>1, <2>1, <3>2 DEF IInv, TypeOK, Edge
      <4>2. Current' \in Drives
        BY <4>1 DEF Current, Drives
      <4> QED BY <4>1, <4>2 DEF EngineSnapshot, Entry
    <3>4. TypeOK /\ CursorInHistory
      BY <1>1 DEF IInv
    <3> QED BY <3>1, <3>3, <3>4, RecordLemma
  <2>2. CASE RecordNow
    <3>1. EngineSnapshot \in Entry /\ Record(EngineSnapshot)
      BY <1>1, <2>2, SnapshotType DEF IInv, RecordNow
    <3>2. TypeOK /\ CursorInHistory
      BY <1>1 DEF IInv
    <3> QED BY <3>1, <3>2, RecordLemma
  <2>3. CASE Reset
    <3>1. entries' = IF Recording THEN <<EngineSnapshot'>> ELSE <<>>
      BY <2>3 DEF Reset
    <3>2. Recording
      BY <1>1, <3>1 DEF IInv, CursorInHistory
    <3>3. cycle' = 0
      BY <2>3 DEF Reset
    <3> QED BY <3>1, <3>2, <3>3
  <2>4. Edge \/ RecordNow \/ Reset
    BY <1>1 DEF Next, vars, drive, engine, shell, SetInput, SetSwitch, SetRegister, SetMemory,
                Advance, Read, EdgeThrows, Seek, StepBack, StepForward, SeekTo, Snapshot, Restore
  <2> QED BY <2>1, <2>2, <2>3, <2>4
<1> QED BY InvariantHolds, <1>1, PTL DEF Spec, HistoryOnlyGrowsAtCursor

=============================================================================
