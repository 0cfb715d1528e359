--------------------------- MODULE Services_proofs --------------------------
(***************************************************************************)
(* Theorems about the service libraries, for any data, writers, boards,     *)
(* callbacks, timers, work items, log messages and bounds.                  *)
(***************************************************************************)
EXTENDS Services, Sublists_proofs

(***************************************************************************)
(* The data store.                                                          *)
(***************************************************************************)
Data == DOMAIN DataLength

WriteCalls == [pc : {"idle", "stat", "created"}, data : Data \cup {"none"},
               overwrite : BOOLEAN, exists : BOOLEAN, inode : Nat, alone : BOOLEAN]

StoreTypes ==
    /\ inodes \in Seq(Seq(Data))
    /\ dir # <<>> => dir = <<dir[1]>> /\ dir[1] \in 1 .. Len(inodes)
    /\ writer \in [Writers -> WriteCalls]
    /\ \A w \in Writers : writer[w].pc # "idle" => writer[w].data \in Data
    /\ \A w \in Writers : writer[w].pc = "created" => writer[w].inode \in 1 .. Len(inodes)
    /\ reader = [pc |-> reader.pc, inode |-> reader.inode, size |-> reader.size,
                 quiet |-> reader.quiet, result |-> reader.result]
    /\ reader.pc \in {"idle", "opened", "sized", "returned"} /\ reader.quiet \in BOOLEAN
    /\ reader.pc \in {"opened", "sized"} => reader.inode \in 1 .. Len(inodes)
    /\ reader.pc = "sized" => reader.size \in Nat

\* The file is what is expected of it.
Holds == IF expected[1] = "none" THEN dir = <<>>
         ELSE expected[1] \in Data /\ dir # <<>> /\ inodes[dir[1]] = Blocks(expected[1])

\* A call that none has overlapped is the only one, and its file is as it left it.
WritersOK ==
    \A w \in Writers :
        /\ writer[w].alone => writer[w].pc # "idle" /\ \A u \in Writers \ {w} : writer[u].pc = "idle"
        /\ writer[w].pc # "idle" /\ expected # <<>> => writer[w].alone
        /\ writer[w].pc = "created" /\ writer[w].alone =>
              dir = <<writer[w].inode>> /\ inodes[writer[w].inode] = <<>>

ExpectedOK == expected # <<>> /\ (\A w \in Writers : writer[w].pc # "created") => Holds

\* A quiet reader runs alone: what it has seen of the file is still so.
ReaderOK ==
    /\ reader.quiet => ~Busy
    /\ reader.quiet /\ reader.pc \in {"opened", "sized"} => dir = <<reader.inode>>
    /\ reader.quiet /\ reader.pc = "sized" => reader.size = Len(inodes[reader.inode])
    /\ reader.quiet /\ reader.pc = "returned" /\ expected # <<>> =>
          reader.result = IF expected[1] = "none" THEN <<"none">> ELSE Blocks(expected[1])
    /\ MemoryTracking => reader.pc = "returned" /\ reader.result \in Seq(Data)

StoreInv == StoreTypes /\ WritersOK /\ ExpectedOK /\ ReaderOK

USE DEF Data, WriteCalls

LEMMA BlocksAreData ==
    \A data \in Data : Blocks(data) \in Seq(Data) /\ Len(Blocks(data)) = DataLength[data]
<1> SUFFICES ASSUME NEW data \in Data PROVE Blocks(data) \in Seq(Data)
                                            /\ Len(Blocks(data)) = DataLength[data]
    OBVIOUS
<1>1. DataLength[data] \in Nat BY DataAssumption
<1>2. Blocks(data) \in [1 .. DataLength[data] -> Data] BY DEF Blocks
<1> QED BY <1>1, <1>2, SeqDef, LenProperties

\* Nothing is behind the blocks written to an empty file.
LEMMA WrittenToEmpty ==
    ASSUME NEW blocks \in Seq(Data)
    PROVE  blocks \o SubSeq(<<>>, Len(blocks) + 1, Len(<<>>)) = blocks
<1> DEFINE rest == SubSeq(<<>>, Len(blocks) + 1, Len(<<>>))
<1>1. Len(<<>>) = 0 /\ Len(blocks) \in Nat BY LenProperties
<1>2. <<>> \in Seq(Data) BY EmptySeq
<1>3. rest = <<>>
    BY <1>1, <1>2, SubSeqProperties
<1> QED BY <1>3, ConcatEmptySeq

\* A write of some blocks leaves a sequence of data blocks.
LEMMA WrittenIsData ==
    ASSUME NEW blocks \in Seq(Data), NEW old \in Seq(Data)
    PROVE  blocks \o SubSeq(old, Len(blocks) + 1, Len(old)) \in Seq(Data)
<1>1. Len(blocks) \in Nat /\ Len(old) \in Nat BY LenProperties
<1>2. SubSeq(old, Len(blocks) + 1, Len(old)) \in Seq(Data)
    BY <1>1, SubSeqProperties
<1> QED BY <1>2, ConcatProperties

LEMMA StoreStarts == StoreInit => StoreInv
<1> SUFFICES ASSUME StoreInit PROVE StoreInv OBVIOUS
<1> USE DEF StoreInit, NoWrite, NoRead
<1>1. StoreTypes
  <2>1. inodes \in Seq(Seq(Data)) BY EmptySeq
  <2> QED BY <2>1 DEF StoreTypes
<1>2. WritersOK BY DEF WritersOK
<1>3. ExpectedOK BY DEF ExpectedOK, Holds
<1>4. ReaderOK BY DEF ReaderOK, Busy
<1> QED BY <1>1, <1>2, <1>3, <1>4 DEF StoreInv

LEMMA WriteBeginsKeeps == StoreInv /\ WriteBegins => StoreInv'
<1> SUFFICES ASSUME StoreInv, WriteBegins PROVE StoreInv' OBVIOUS
<1> USE DEF StoreInv
<1>1. PICK w \in Writers, data \in Data, overwrite \in BOOLEAN :
          /\ writer[w].pc = "idle"
          /\ writer' = [Overlapped EXCEPT ![w] =
                            [pc |-> "stat", data |-> data, inode |-> 0, alone |-> ~Busy,
                             overwrite |-> overwrite, exists |-> dir # <<>>]]
          /\ expected' = IF Busy THEN <<>> ELSE expected
    BY DEF WriteBegins
<1>2. /\ reader' = [reader EXCEPT !.quiet = FALSE]
      /\ dir' = dir /\ inodes' = inodes /\ MemoryTracking' = MemoryTracking
    BY DEF WriteBegins
<1>3. /\ writer'[w] = [pc |-> "stat", data |-> data, inode |-> 0, alone |-> ~Busy,
                       overwrite |-> overwrite, exists |-> dir # <<>>]
      /\ \A u \in Writers \ {w} : writer'[u] = [writer[u] EXCEPT !.alone = FALSE]
      /\ DOMAIN writer' = Writers
    BY <1>1 DEF Overlapped
<1>4. StoreTypes'
  <2>1. writer' \in [Writers -> WriteCalls]
    <3>1. \A u \in Writers : writer[u] \in WriteCalls BY DEF StoreTypes
    <3>2. \A u \in Writers : [writer[u] EXCEPT !.alone = FALSE] \in WriteCalls
        BY <3>1
    <3>3. (~Busy) \in BOOLEAN /\ (dir # <<>>) \in BOOLEAN BY DEF Busy
    <3>4. writer'[w] \in WriteCalls BY <1>3, <3>3
    <3>5. writer' = [u \in Writers |-> writer'[u]] BY <1>1 DEF Overlapped
    <3> HIDE DEF WriteCalls
    <3>6. \A u \in Writers : writer'[u] \in WriteCalls BY <1>3, <3>2, <3>4
    <3> QED BY <3>5, <3>6
  <2>2. \A u \in Writers : writer'[u].pc # "idle" => writer'[u].data \in Data
    <3>1. writer'[w].data \in Data BY <1>3
    <3>2. \A u \in Writers \ {w} : writer'[u].pc = writer[u].pc /\ writer'[u].data = writer[u].data
        BY <1>3 DEF StoreTypes
    <3> QED BY <3>1, <3>2 DEF StoreTypes
  <2>3. \A u \in Writers : writer'[u].pc = "created" => writer'[u].inode \in 1 .. Len(inodes)
    BY <1>3 DEF StoreTypes
  <2> QED BY <1>2, <2>1, <2>2, <2>3 DEF StoreTypes
<1>5. \A u \in Writers \ {w} : writer'[u].pc = writer[u].pc /\ ~writer'[u].alone
    BY <1>3 DEF StoreTypes
<1>6. WritersOK'
  <2>1. ASSUME NEW u \in Writers, u # w PROVE
            /\ ~writer'[u].alone
            /\ writer'[u].pc # "idle" => expected' = <<>>
    BY <1>1, <1>5, <2>1 DEF Busy
  <2>2. writer'[w].alone = ~Busy
    BY <1>3
  <2>3. ~Busy => \A u \in Writers \ {w} : writer'[u].pc = "idle"
    BY <1>5 DEF Busy
  <2>4. expected' # <<>> => writer'[w].alone
    BY <1>1, <2>2
  <2>5. writer'[w].pc = "stat"
    BY <1>3
  <2> QED BY <2>1, <2>2, <2>3, <2>4, <2>5 DEF WritersOK
<1>7. ExpectedOK'
  <2> SUFFICES ASSUME expected' # <<>> PROVE Holds' BY DEF ExpectedOK
  <2>1. ~Busy /\ expected' = expected BY <1>1
  <2>2. Holds BY <2>1 DEF Busy, ExpectedOK
  <2> QED BY <1>2, <2>1, <2>2 DEF Holds
<1>8. ReaderOK'
  <2>1. /\ ~reader'.quiet /\ reader'.pc = reader.pc /\ reader'.result = reader.result
    BY <1>2 DEF StoreTypes
  <2> QED BY <1>2, <2>1 DEF ReaderOK
<1> QED BY <1>4, <1>6, <1>7, <1>8

\* A writer's call that ends leaves the others as they are.
LEMMA WriterEnds ==
    ASSUME StoreInv, NEW w \in Writers, NEW known, Done(w, known),
           writer[w].pc # "idle", reader' = reader, MemoryTracking' = MemoryTracking
    PROVE  /\ writer'[w] = NoWrite
           /\ \A u \in Writers \ {w} : writer'[u] = writer[u]
           /\ writer' \in [Writers -> WriteCalls]
           /\ ReaderOK'
<1> USE DEF StoreInv, StoreTypes
<1>1. writer' = [writer EXCEPT ![w] = NoWrite]
    BY DEF Done
<1>2. /\ writer'[w] = NoWrite
      /\ \A u \in Writers \ {w} : writer'[u] = writer[u]
    BY <1>1
<1>3. NoWrite \in WriteCalls
    BY DEF NoWrite
<1>4. writer' \in [Writers -> WriteCalls]
    BY <1>1, <1>3
<1>5. ~reader.quiet
    BY DEF ReaderOK, Busy
<1>6. ReaderOK'
    BY <1>5 DEF ReaderOK
<1> QED BY <1>2, <1>4, <1>6

\* DsAlreadyExists and a failed creat change nothing.
LEMMA WriteGivenUp ==
    ASSUME StoreInv, NEW w \in Writers, writer[w].pc = "stat", Done(w, expected),
           dir' = dir, inodes' = inodes, reader' = reader, MemoryTracking' = MemoryTracking
    PROVE  StoreInv'
<1> USE DEF StoreInv
<1>1. /\ writer'[w] = NoWrite
      /\ \A u \in Writers \ {w} : writer'[u] = writer[u]
      /\ writer' \in [Writers -> WriteCalls]
      /\ ReaderOK'
    BY WriterEnds
<1>2. expected' = expected BY DEF Done
<1>3. writer'[w].pc = "idle" /\ writer'[w].alone = FALSE BY <1>1 DEF NoWrite
<1>4. StoreTypes' BY <1>1, <1>3 DEF StoreTypes
<1>5. WritersOK' BY <1>1, <1>2, <1>3 DEF WritersOK
<1>6. ExpectedOK'
  <2> SUFFICES ASSUME expected' # <<>>, \A u \in Writers : writer'[u].pc # "created"
               PROVE  Holds'
      BY DEF ExpectedOK
  <2>1. \A u \in Writers : writer[u].pc # "created" BY <1>1
  <2>2. Holds BY <1>2, <2>1 DEF ExpectedOK
  <2> QED BY <1>2, <2>2 DEF Holds
<1> QED BY <1>1, <1>4, <1>5, <1>6

LEMMA WriteCreatesKeeps == ASSUME StoreInv, NEW w \in Writers, WriteCreates(w) PROVE StoreInv'
<1> USE DEF StoreInv
<1>1. /\ writer[w].pc = "stat" /\ Creat(w)
      /\ reader' = reader /\ MemoryTracking' = MemoryTracking /\ expected' = expected
    BY DEF WriteCreates
<1>2. /\ Len(inodes) \in Nat /\ (dir # <<>> => dir[1] \in 1 .. Len(inodes))
      /\ inodes \in Seq(Seq(Data)) /\ <<>> \in Seq(Data)
    BY LenProperties, EmptySeq DEF StoreTypes
<1> DEFINE i == IF dir = <<>> THEN Len(inodes) + 1 ELSE dir[1]
<1>3. /\ inodes' \in Seq(Seq(Data)) /\ Len(inodes') \in Nat
      /\ dir' = <<i>> /\ i \in 1 .. Len(inodes') /\ inodes'[i] = <<>>
      /\ Len(inodes) <= Len(inodes')
  <2>1. CASE dir = <<>>
    <3>1. inodes' = Append(inodes, <<>>) /\ dir' = <<Len(inodes')>>
        BY <1>1, <2>1 DEF Creat
    <3>2. /\ inodes' \in Seq(Seq(Data)) /\ Len(inodes') = Len(inodes) + 1
          /\ inodes'[Len(inodes) + 1] = <<>>
        BY <1>2, <3>1, AppendProperties
    <3> QED BY <1>2, <2>1, <3>1, <3>2
  <2>2. CASE dir # <<>>
    <3>1. inodes' = [inodes EXCEPT ![dir[1]] = <<>>] /\ dir' = dir /\ dir = <<dir[1]>>
        BY <1>1, <2>2 DEF Creat, StoreTypes
    <3>2. /\ inodes' \in Seq(Seq(Data)) /\ Len(inodes') = Len(inodes)
          /\ inodes'[dir[1]] = <<>>
        BY <1>2, <2>2, <3>1, ExceptSeq
    <3> QED BY <1>2, <2>2, <3>1, <3>2
  <2> QED BY <2>1, <2>2
<1>4. /\ writer' = [writer EXCEPT ![w] = [writer[w] EXCEPT !.pc = "created", !.inode = i]]
      /\ writer \in [Writers -> WriteCalls]
  <2>1. writer' = [writer EXCEPT ![w].pc = "created", ![w].inode = dir'[1]]
      BY <1>1 DEF Creat
  <2>2. dir'[1] = i BY <1>3
  <2> QED BY <2>1, <2>2 DEF StoreTypes
<1>5. /\ writer'[w].pc = "created" /\ writer'[w].inode = i
      /\ writer'[w].data = writer[w].data /\ writer'[w].alone = writer[w].alone
      /\ \A u \in Writers \ {w} : writer'[u] = writer[u]
    BY <1>4
<1> HIDE DEF i
<1>6. StoreTypes'
  <2>1. i \in Nat BY <1>3
  <2>2. writer' \in [Writers -> WriteCalls] BY <1>4, <2>1
  <2>3. \A u \in Writers : writer'[u].pc # "idle" => writer'[u].data \in Data
      BY <1>1, <1>5 DEF StoreTypes
  <2>4. \A u \in Writers : writer'[u].pc = "created" => writer'[u].inode \in 1 .. Len(inodes')
    <3>1. 1 .. Len(inodes) \subseteq 1 .. Len(inodes') BY <1>2, <1>3
    <3>2. writer'[w].inode \in 1 .. Len(inodes') BY <1>3, <1>5
    <3>3. \A u \in Writers \ {w} : writer'[u].pc = "created" =>
              writer'[u].inode \in 1 .. Len(inodes)
        BY <1>5 DEF StoreTypes
    <3> QED BY <3>1, <3>2, <3>3
  <2>5. reader.pc \in {"opened", "sized"} => reader.inode \in 1 .. Len(inodes')
      BY <1>2, <1>3 DEF StoreTypes
  <2> QED BY <1>1, <1>3, <2>2, <2>3, <2>4, <2>5 DEF StoreTypes
<1>7. WritersOK'
  <2>1. \A u \in Writers \ {w} : ~writer[u].alone BY <1>1 DEF WritersOK
  <2>2. \A u \in Writers \ {w} : ~writer'[u].alone BY <1>5, <2>1
  <2> QED BY <1>1, <1>3, <1>5, <2>1, <2>2 DEF WritersOK
<1>8. ExpectedOK' BY <1>5 DEF ExpectedOK
<1>9. ReaderOK'
  <2>1. ~reader.quiet BY <1>1 DEF ReaderOK, Busy
  <2> QED BY <1>1, <2>1 DEF ReaderOK
<1> QED BY <1>6, <1>7, <1>8, <1>9

\* What a call that ends leaves in the file of its own writer.
LEMMA WrittenKeeps ==
    ASSUME StoreInv, NEW w \in Writers, writer[w].pc = "created",
           NEW blocks \in Seq(Data), Overwritten(writer[w].inode, blocks),
           dir' = dir, reader' = reader, MemoryTracking' = MemoryTracking,
           NEW known, Done(w, known),
           known = <<>> \/ (writer[w].alone /\ known = <<writer[w].data>>
                            /\ blocks = Blocks(writer[w].data))
    PROVE  StoreInv'
<1> USE DEF StoreInv
<1>1. /\ writer'[w] = NoWrite
      /\ \A u \in Writers \ {w} : writer'[u] = writer[u]
      /\ writer' \in [Writers -> WriteCalls]
      /\ ReaderOK'
    BY WriterEnds
<1>2. expected' = known BY DEF Done
<1>3. writer'[w].pc = "idle" /\ writer'[w].alone = FALSE BY <1>1 DEF NoWrite
<1>4. PICK i : i = writer[w].inode OBVIOUS
<1>5. /\ inodes \in Seq(Seq(Data)) /\ i \in 1 .. Len(inodes) /\ inodes[i] \in Seq(Data)
  <2>1. inodes \in Seq(Seq(Data)) /\ i \in 1 .. Len(inodes) BY <1>4 DEF StoreTypes
  <2> QED BY <2>1, ElementOfSeq
<1>6. PICK after : after = blocks \o SubSeq(inodes[i], Len(blocks) + 1, Len(inodes[i]))
    OBVIOUS
<1>7. after \in Seq(Data) BY <1>5, <1>6, WrittenIsData
<1>8. inodes' = [inodes EXCEPT ![i] = after] BY <1>4, <1>6 DEF Overwritten
<1>9. inodes' \in Seq(Seq(Data)) /\ Len(inodes') = Len(inodes) /\ inodes'[i] = after
    BY <1>5, <1>7, <1>8, ExceptSeq
<1>10. StoreTypes' BY <1>1, <1>3, <1>9 DEF StoreTypes
<1>11. \A u \in Writers \ {w} : ~writer'[u].alone BY <1>1 DEF WritersOK
<1>12. WritersOK'
  <2>1. known # <<>> => \A u \in Writers : writer'[u].pc = "idle"
      BY <1>1, <1>3 DEF WritersOK
  <2> QED BY <1>2, <1>3, <1>11, <2>1 DEF WritersOK
<1>13. ExpectedOK'
  <2> SUFFICES ASSUME known # <<>> PROVE Holds' BY <1>2 DEF ExpectedOK
  <2>1. /\ writer[w].alone /\ known = <<writer[w].data>> /\ blocks = Blocks(writer[w].data)
        /\ writer[w].data \in Data
      BY DEF StoreTypes
  <2>2. dir = <<i>> /\ inodes[i] = <<>> BY <1>4, <2>1 DEF WritersOK
  <2>3. after = blocks BY <1>6, <2>2, WrittenToEmpty
  <2>4. expected'[1] = writer[w].data BY <1>2, <2>1
  <2>5. writer[w].data # "none" BY <2>1, DataAssumption
  <2>6. dir' # <<>> /\ dir'[1] = i BY <2>2
  <2> QED BY <1>9, <2>1, <2>3, <2>4, <2>5, <2>6 DEF Holds, Blocks
<1> QED BY <1>1, <1>10, <1>12, <1>13

LEMMA WritesKeep ==
    ASSUME StoreInv, NEW w \in Writers, WriteSucceeds(w) \/ WriteFallsShort(w) PROVE StoreInv'
<1> USE DEF StoreInv
<1>1. /\ writer[w].pc = "created" /\ writer[w].data \in Data
      /\ dir' = dir /\ reader' = reader /\ MemoryTracking' = MemoryTracking
    BY DEF WriteSucceeds, WriteFallsShort, StoreTypes
<1>2. Blocks(writer[w].data) \in Seq(Data)
      /\ Len(Blocks(writer[w].data)) = DataLength[writer[w].data]
    BY <1>1, BlocksAreData
<1>3. CASE WriteSucceeds(w)
  <2>1. /\ Overwritten(writer[w].inode, Blocks(writer[w].data))
        /\ Done(w, IF writer[w].alone THEN <<writer[w].data>> ELSE <<>>)
      BY <1>3 DEF WriteSucceeds
  <2>2. PICK known : known = IF writer[w].alone THEN <<writer[w].data>> ELSE <<>> OBVIOUS
  <2>3. Done(w, known) BY <2>1, <2>2
  <2>4. known = <<>> \/ (writer[w].alone /\ known = <<writer[w].data>>
                         /\ Blocks(writer[w].data) = Blocks(writer[w].data))
      BY <2>2
  <2>5. PICK blocks : blocks = Blocks(writer[w].data) OBVIOUS
  <2> QED BY <1>1, <1>2, <2>1, <2>3, <2>4, <2>5, WrittenKeeps
<1>4. CASE WriteFallsShort(w)
  <2>1. PICK n \in 0 .. DataLength[writer[w].data] - 1 :
            Overwritten(writer[w].inode, SubSeq(Blocks(writer[w].data), 1, n))
      BY <1>4 DEF WriteFallsShort
  <2>2. PICK known : known = <<>> OBVIOUS
  <2>3. Done(w, known) BY <1>4, <2>2 DEF WriteFallsShort
  <2>4. DataLength[writer[w].data] \in Nat BY <1>1, DataAssumption
  <2>5. PICK blocks : blocks = SubSeq(Blocks(writer[w].data), 1, n) OBVIOUS
  <2>6. blocks \in Seq(Data)
    <3>1. \A k \in 1 .. n : Blocks(writer[w].data)[k] \in Data
        BY <1>1, <1>2, <2>4 DEF Blocks
    <3> QED BY <2>1, <2>4, <2>5, <3>1, SubSeqProperties
  <2> QED BY <1>1, <2>1, <2>2, <2>3, <2>5, <2>6, WrittenKeeps
<1> QED BY <1>3, <1>4

LEMMA PurgeKeeps == StoreInv /\ Purge => StoreInv'
<1> SUFFICES ASSUME StoreInv, Purge PROVE StoreInv' OBVIOUS
<1> USE DEF StoreInv
<1>1. /\ dir' = <<>> /\ expected' = IF Busy THEN <<>> ELSE <<"none">>
      /\ reader' = [reader EXCEPT !.quiet = FALSE] /\ writer' = Overlapped
      /\ inodes' = inodes /\ MemoryTracking' = MemoryTracking
    BY DEF Purge
<1>2. /\ writer' \in [Writers -> WriteCalls]
      /\ \A u \in Writers : /\ writer'[u].pc = writer[u].pc /\ ~writer'[u].alone
                            /\ writer'[u].data = writer[u].data
                            /\ writer'[u].inode = writer[u].inode
  <2>1. \A u \in Writers : writer[u] \in WriteCalls BY DEF StoreTypes
  <2>2. \A u \in Writers : writer'[u] = [writer[u] EXCEPT !.alone = FALSE]
      BY <1>1 DEF Overlapped
  <2>3. \A u \in Writers : [writer[u] EXCEPT !.alone = FALSE] \in WriteCalls BY <2>1
  <2>4. \A u \in Writers : writer'[u].pc = writer[u].pc /\ ~writer'[u].alone
                           /\ writer'[u].data = writer[u].data
                           /\ writer'[u].inode = writer[u].inode
      BY <2>1, <2>2
  <2>5. writer' = [u \in Writers |-> [writer[u] EXCEPT !.alone = FALSE]]
      BY <1>1 DEF Overlapped
  <2> HIDE DEF WriteCalls
  <2> QED BY <2>3, <2>4, <2>5
<1>3. /\ ~reader'.quiet /\ reader'.pc = reader.pc /\ reader'.result = reader.result
      /\ reader'.inode = reader.inode /\ reader'.size = reader.size
    BY <1>1 DEF StoreTypes
<1>4. StoreTypes'
  <2>1. \A u \in Writers : writer'[u].pc # "idle" => writer'[u].data \in Data
      BY <1>2 DEF StoreTypes
  <2>2. \A u \in Writers : writer'[u].pc = "created" => writer'[u].inode \in 1 .. Len(inodes)
      BY <1>2 DEF StoreTypes
  <2> QED BY <1>1, <1>2, <1>3, <2>1, <2>2 DEF StoreTypes
<1>5. WritersOK' BY <1>1, <1>2 DEF WritersOK, Busy
<1>6. ExpectedOK' BY <1>1 DEF ExpectedOK, Holds
<1>7. ReaderOK' BY <1>1, <1>3 DEF ReaderOK
<1> QED BY <1>4, <1>5, <1>6, <1>7

LEMMA CrashKeeps == StoreInv /\ StoreCrash => StoreInv'
<1> SUFFICES ASSUME StoreInv, StoreCrash PROVE StoreInv' OBVIOUS
<1> USE DEF StoreInv
<1>1. /\ dir' = dir /\ inodes' = inodes /\ expected' = IF Busy THEN <<>> ELSE expected
      /\ writer' = [w \in Writers |-> NoWrite] /\ reader' = NoRead /\ MemoryTracking' = FALSE
    BY DEF StoreCrash
<1>2. StoreTypes' BY <1>1 DEF StoreTypes, NoWrite, NoRead
<1>3. WritersOK' BY <1>1 DEF WritersOK, NoWrite
<1>4. ExpectedOK'
  <2> SUFFICES ASSUME expected' # <<>> PROVE Holds' BY DEF ExpectedOK
  <2>1. ~Busy /\ expected' = expected BY <1>1
  <2>2. Holds BY <2>1 DEF Busy, ExpectedOK
  <2> QED BY <1>1, <2>1, <2>2 DEF Holds
<1>5. ReaderOK' BY <1>1 DEF ReaderOK, NoRead, NoWrite, Busy
<1> QED BY <1>2, <1>3, <1>4, <1>5

LEMMA ReaderKeeps == ASSUME StoreInv, ReadOpens \/ ReadSizes \/ ReadReads \/ ReadDone
                     PROVE  StoreInv'
<1> USE DEF StoreInv
<1>1. dir' = dir /\ inodes' = inodes /\ writer' = writer /\ expected' = expected
    BY DEF ReadOpens, ReadSizes, ReadReads, ReadDone
<1>2. /\ \A i \in 1 .. Len(inodes) : inodes[i] \in Seq(Data) /\ Len(inodes[i]) \in Nat
      /\ inodes \in Seq(Seq(Data)) /\ Len(inodes) \in Nat
  <2>1. inodes \in Seq(Seq(Data)) BY DEF StoreTypes
  <2> QED BY <2>1, ElementOfSeq, LenProperties
<1>3. Busy' = Busy BY <1>1 DEF Busy
<1>4. WritersOK' /\ ExpectedOK' BY <1>1 DEF WritersOK, ExpectedOK, Holds, Blocks
<1>5. StoreTypes' /\ ReaderOK'
  <2>1. CASE ReadOpens
    <3>1. CASE dir = <<>>
      <4>1. reader' = [NoRead EXCEPT !.pc = "returned", !.quiet = ~Busy, !.result = <<"none">>]
          BY <2>1, <3>1 DEF ReadOpens
      <4>2. /\ reader.pc = "idle" /\ MemoryTracking' = MemoryTracking
          BY <2>1 DEF ReadOpens
      <4>3. reader' = [pc |-> "returned", inode |-> 0, size |-> 0, quiet |-> ~Busy,
                       result |-> <<"none">>]
          BY <4>1 DEF NoRead
      <4>4. StoreTypes'
        <5>1. (~Busy) \in BOOLEAN BY DEF Busy
        <5> QED BY <1>1, <4>3, <5>1 DEF StoreTypes
      <4>5. ~Busy /\ expected # <<>> => expected[1] = "none"
          BY <3>1 DEF ExpectedOK, Busy, Holds
      <4>6. ~MemoryTracking BY <4>2 DEF ReaderOK
      <4> QED BY <1>1, <1>3, <4>2, <4>3, <4>4, <4>5, <4>6 DEF ReaderOK
    <3>2. CASE dir # <<>>
      <4>1. reader' = [NoRead EXCEPT !.pc = "opened", !.quiet = ~Busy, !.inode = dir[1]]
          BY <2>1, <3>2 DEF ReadOpens
      <4>2. /\ reader.pc = "idle" /\ MemoryTracking' = MemoryTracking
          BY <2>1 DEF ReadOpens
      <4>3. reader' = [pc |-> "opened", inode |-> dir[1], size |-> 0, quiet |-> ~Busy,
                       result |-> <<>>]
          BY <4>1 DEF NoRead
      <4>4. StoreTypes'
        <5>1. (~Busy) \in BOOLEAN BY DEF Busy
        <5> QED BY <1>1, <3>2, <4>3, <5>1 DEF StoreTypes
      <4>5. dir = <<dir[1]>> BY <3>2 DEF StoreTypes
      <4>6. ~MemoryTracking BY <4>2 DEF ReaderOK
      <4> QED BY <1>1, <1>3, <4>2, <4>3, <4>4, <4>5, <4>6 DEF ReaderOK
    <3> QED BY <3>1, <3>2
  <2>2. CASE ReadSizes
    <3>1. /\ reader.pc = "opened" /\ MemoryTracking' = MemoryTracking
          /\ reader' = [reader EXCEPT !.pc = "sized", !.size = Len(inodes[reader.inode])]
        BY <2>2 DEF ReadSizes
    <3>2. PICK size : size = Len(inodes[reader.inode]) OBVIOUS
    <3>3. reader' = [pc |-> "sized", inode |-> reader.inode, size |-> size,
                     quiet |-> reader.quiet, result |-> reader.result]
        BY <3>1, <3>2 DEF StoreTypes
    <3>4. reader.inode \in 1 .. Len(inodes) /\ size \in Nat BY <1>2, <3>1, <3>2 DEF StoreTypes
    <3>5. StoreTypes' BY <1>1, <3>3, <3>4 DEF StoreTypes
    <3>6. ~MemoryTracking BY <3>1 DEF ReaderOK
    <3> QED BY <1>1, <1>3, <3>1, <3>2, <3>3, <3>5, <3>6 DEF ReaderOK
  <2>3. CASE ReadReads
    <3>1. PICK i, blocks : i = reader.inode /\ blocks = inodes[i] OBVIOUS
    <3>2. /\ reader.pc = "sized" /\ i \in 1 .. Len(inodes) /\ reader.size \in Nat
          /\ blocks \in Seq(Data) /\ Len(blocks) \in Nat
        BY <1>2, <2>3, <3>1 DEF ReadReads, StoreTypes
    <3>3. CASE Len(blocks) < reader.size
      <4>1. reader' = [reader EXCEPT !.pc = "returned", !.result = <<"error">>]
            /\ MemoryTracking' = MemoryTracking
          BY <2>3, <3>1, <3>3 DEF ReadReads
      <4>2. reader' = [pc |-> "returned", inode |-> i, size |-> reader.size,
                       quiet |-> reader.quiet, result |-> <<"error">>]
          BY <3>1, <4>1 DEF StoreTypes
      <4>3. ~reader.quiet BY <3>1, <3>2, <3>3 DEF ReaderOK
      <4>4. ~MemoryTracking BY <3>2 DEF ReaderOK
      <4>5. StoreTypes' BY <1>1, <4>2 DEF StoreTypes
      <4> QED BY <1>1, <4>1, <4>2, <4>3, <4>4, <4>5 DEF ReaderOK
    <3>4. CASE ~(Len(blocks) < reader.size)
      <4>1. PICK result : result = SubSeq(blocks, 1, reader.size) OBVIOUS
      <4>2. reader' = [reader EXCEPT !.pc = "returned", !.result = result]
          BY <2>3, <3>1, <3>4, <4>1 DEF ReadReads
      <4>3. reader' = [pc |-> "returned", inode |-> i, size |-> reader.size,
                       quiet |-> reader.quiet, result |-> result]
          BY <3>1, <4>2 DEF StoreTypes
      <4>4. result \in Seq(Data)
        <5>1. \A k \in 1 .. reader.size : blocks[k] \in Data
            BY <3>2, <3>4, ElementOfSeq
        <5> QED BY <3>2, <4>1, <5>1, SubSeqProperties
      <4>5. StoreTypes' BY <1>1, <4>3 DEF StoreTypes
      <4>6. ASSUME reader.quiet, expected # <<>>
            PROVE  result = IF expected[1] = "none" THEN <<"none">> ELSE Blocks(expected[1])
        <5>1. dir = <<i>> /\ reader.size = Len(blocks) BY <3>1, <3>2, <4>6 DEF ReaderOK
        <5>2. ~Busy BY <4>6 DEF ReaderOK
        <5>3. Holds BY <4>6, <5>2 DEF ExpectedOK, Busy
        <5>4. expected[1] # "none" /\ blocks = Blocks(expected[1])
            BY <3>1, <5>1, <5>3 DEF Holds
        <5>5. result = blocks BY <3>2, <4>1, <5>1, SubSeqFull
        <5> QED BY <5>4, <5>5
      <4> QED BY <1>1, <1>3, <4>3, <4>4, <4>5, <4>6 DEF ReaderOK, Blocks
    <3> QED BY <3>3, <3>4
  <2>4. CASE ReadDone
    <3>1. reader' = NoRead /\ MemoryTracking' = FALSE BY <2>4 DEF ReadDone
    <3>2. StoreTypes' BY <1>1, <3>1 DEF StoreTypes, NoRead
    <3> QED BY <3>1, <3>2 DEF ReaderOK, NoRead
  <2> QED BY <2>1, <2>2, <2>3, <2>4
<1> QED BY <1>4, <1>5

LEMMA StoreStep == StoreInv /\ [StoreNext]_storeVars => StoreInv'
<1> SUFFICES ASSUME StoreInv, [StoreNext]_storeVars PROVE StoreInv' OBVIOUS
<1>1. CASE WriteBegins BY <1>1, WriteBeginsKeeps
<1>2. CASE Purge BY <1>2, PurgeKeeps
<1>3. CASE ReadOpens \/ ReadSizes \/ ReadReads \/ ReadDone BY <1>3, ReaderKeeps
<1>4. CASE StoreCrash BY <1>4, CrashKeeps
<1>5. ASSUME NEW w \in Writers, WriteRefused(w) \/ CreatFails(w) PROVE StoreInv'
    BY <1>5, WriteGivenUp DEF WriteRefused, CreatFails
<1>6. ASSUME NEW w \in Writers, WriteCreates(w) PROVE StoreInv' BY <1>6, WriteCreatesKeeps
<1>7. ASSUME NEW w \in Writers, WriteSucceeds(w) \/ WriteFallsShort(w) PROVE StoreInv'
    BY <1>7, WritesKeep
<1>8. CASE UNCHANGED storeVars
    BY <1>8 DEF storeVars, StoreInv, StoreTypes, WritersOK, ExpectedOK, ReaderOK, Holds, Blocks,
                Busy
<1> QED BY <1>1, <1>2, <1>3, <1>4, <1>5, <1>6, <1>7, <1>8 DEF StoreNext

\* What the library that runs does is a step of the store, or leaves it alone.
LEMMA StoreInvariant == Spec => []StoreInv
<1>1. Init => StoreInv BY StoreStarts DEF Init
<1>2. [Next]_vars => [StoreNext]_storeVars
    BY DEF Next, vars, TimersRun, WorkQueueRuns, LogRuns, EventsRun, StoreRuns, GpioRuns
<1>3. StoreInv /\ [Next]_vars => StoreInv' BY <1>2, StoreStep
<1> QED BY <1>1, <1>3, PTL DEF Spec

\* DataStoreReadData after DataStoreWriteData or DataStorePurgeData: a read
\* that no call overlaps returns the whole data of the last call that
\* succeeded, if none overlapped that one, whatever writes failed, fell short
\* or were killed before; no buffer is left tracked.
THEOREM ReadsReturnTheLastWrite == Spec => []LastWriteRead
<1>1. StoreInv => LastWriteRead
  <2> SUFFICES ASSUME StoreInv PROVE LastWriteRead OBVIOUS
  <2>1. ASSUME MemoryTracking
        PROVE  reader.pc = "returned" /\ reader.result \notin {<<"none">>, <<"error">>}
    <3>1. reader.pc = "returned" /\ reader.result \in Seq(Data)
        BY <2>1 DEF StoreInv, ReaderOK
    <3>2. ASSUME NEW x, reader.result = <<x>> PROVE x \in Data
      <4>1. Len(reader.result) = 1 /\ reader.result[1] = x BY <3>2
      <4> QED BY <3>1, <4>1, ElementOfSeq
    <3> QED BY <3>1, <3>2, DataAssumption
  <2> QED BY <2>1 DEF StoreInv, ReaderOK, LastWriteRead
<1> QED BY <1>1, StoreInvariant, PTL


(***************************************************************************)
(* The GPIO library.                                                        *)
(***************************************************************************)
Levels == {-1, 0, 1}

GpioTypes ==
    /\ CallbackList \in [GpioInputs -> Seq(GpioCallbacks)]
    /\ DOMAIN callback \subseteq GpioCallbacks
    /\ told \in [GpioCallbacks -> Seq(Levels)]
    /\ since \in [GpioCallbacks -> Nat] /\ polls \in Nat /\ pollNext \in Nat
    /\ gpioPc \in {"sleeping", "polling"} => levels \in [InputTags(inputs) -> Levels]
    /\ DOMAIN ioValues = GpioInputs

\* A callback is registered once, at an input that is valid.
RegisteredOnce ==
    \A i \in GpioInputs : \A c \in Range(CallbackList[i]) :
        /\ gpioPc \in {"sleeping", "polling"} /\ inputs[i].valid
        /\ c \in DOMAIN callback
        /\ \A j \in GpioInputs \ {i} : c \notin Range(CallbackList[j])

\* What the library knows of a callback is what it was told last.
ToldOK ==
    /\ \A c \in GpioCallbacks \ DOMAIN callback : told[c] = <<>>
    /\ \A c \in DOMAIN callback :
          IF callback[c].IsDirty THEN told[c] = <<>>
          ELSE told[c] # <<>> /\ callback[c].IoValue = Last(told[c])
    /\ \A c \in GpioCallbacks : \A k \in 2 .. Len(told[c]) : told[c][k] # told[c][k - 1]

\* Since its first poll, and in a poll once its input was read, a callback is
\* up to date.
CurrentOK ==
    \A i \in GpioInputs : \A c \in Range(CallbackList[i]) :
        /\ since[c] <= polls
        /\ since[c] < polls \/ (gpioPc = "polling" /\ i < pollNext) =>
              ~callback[c].IsDirty /\ callback[c].IoValue = ioValues[i]

GpioInv == GpioTypes /\ RegisteredOnce /\ ToldOK /\ CurrentOK

\* What is registered first in a list is in it, with what was.
LEMMA RangeOfCons ==
    ASSUME NEW S, NEW s \in Seq(S), NEW c \in S
    PROVE  <<c>> \o s \in Seq(S) /\ Range(<<c>> \o s) = {c} \cup Range(s)
<1>1. <<c>> \in Seq(S) /\ Len(<<c>>) = 1 /\ <<c>>[1] = c OBVIOUS
<1>2. Range(<<c>>) = {c} BY DEF Range
<1>3. PICK one : one = <<c>> OBVIOUS
<1>4. one \o s \in Seq(S) BY <1>1, <1>3, ConcatProperties
<1>5. Range(one \o s) = Range(one) \cup Range(s) BY <1>1, <1>3, RangeConcatenation
<1> QED BY <1>2, <1>3, <1>4, <1>5

\* Whoever is told a new value is not told one twice in a row.
LEMMA ToldOnce ==
    ASSUME NEW s \in Seq(Levels), NEW value \in Levels,
           \A k \in 2 .. Len(s) : s[k] # s[k - 1],
           s = <<>> \/ Last(s) # value
    PROVE  /\ Append(s, value) \in Seq(Levels) /\ Append(s, value) # <<>>
           /\ Last(Append(s, value)) = value
           /\ \A k \in 2 .. Len(Append(s, value)) :
                 Append(s, value)[k] # Append(s, value)[k - 1]
<1> DEFINE t == Append(s, value)
<1>1. /\ t \in Seq(Levels) /\ Len(s) \in Nat /\ Len(t) = Len(s) + 1
      /\ \A k \in 1 .. Len(s) : t[k] = s[k]
      /\ t[Len(s) + 1] = value
    BY AppendProperties, LenProperties
<1> HIDE DEF t
<1>2. t # <<>> BY <1>1, EmptySeq
<1>3. Last(t) = value BY <1>1 DEF Last
<1>4. ASSUME NEW k \in 2 .. Len(t) PROVE t[k] # t[k - 1]
  <2>1. CASE k \in 2 .. Len(s)
    <3>1. t[k] = s[k] /\ t[k - 1] = s[k - 1] BY <1>1, <2>1
    <3> QED BY <2>1, <3>1
  <2>2. CASE k = Len(s) + 1
    <3>1. Len(s) >= 1 /\ t[k] = value /\ t[k - 1] = s[Len(s)] BY <1>1, <2>2
    <3>2. s # <<>> BY <3>1, EmptySeq
    <3> QED BY <3>1, <3>2 DEF Last
  <2> QED BY <1>1, <2>1, <2>2
<1> QED BY <1>1, <1>2, <1>3, <1>4 DEF t

LEMMA GpioStarts == GpioInit => GpioInv
<1> SUFFICES ASSUME GpioInit PROVE GpioInv OBVIOUS
<1>1. /\ gpioPc = "new" /\ CallbackList = [i \in GpioInputs |-> <<>>] /\ callback = <<>>
      /\ told = [c \in GpioCallbacks |-> <<>>] /\ since = [c \in GpioCallbacks |-> 0]
      /\ polls = 0 /\ pollNext = 0 /\ ioValues = [i \in GpioInputs |-> 0]
    BY DEF GpioInit
<1>2. DOMAIN callback = {} BY <1>1
<1>3. GpioTypes BY <1>1, <1>2 DEF GpioTypes
<1>4. \A i \in GpioInputs : Range(CallbackList[i]) = {} BY <1>1 DEF Range
<1>5. ToldOK BY <1>1, <1>2 DEF ToldOK
<1> QED BY <1>3, <1>4, <1>5 DEF GpioInv, RegisteredOnce, CurrentOK

LEMMA RegisterKeeps ==
    GpioInv /\ TaGpioRegisterInputChangeCallback => GpioInv'
<1> SUFFICES ASSUME GpioInv, TaGpioRegisterInputChangeCallback PROVE GpioInv' OBVIOUS
<1> USE DEF GpioInv
<1>1. PICK c \in GpioCallbacks \ DOMAIN callback, i \in GpioInputs :
          /\ inputs[i].valid
          /\ CallbackList' = [CallbackList EXCEPT ![i] = <<c>> \o CallbackList[i]]
          /\ callback' = [d \in DOMAIN callback \cup {c} |->
                              IF d = c THEN NewCallback ELSE callback[d]]
          /\ since' = [since EXCEPT ![c] = polls]
    BY DEF TaGpioRegisterInputChangeCallback
<1>2. /\ gpioPc = "sleeping" /\ gpioPc' = gpioPc /\ inputs' = inputs /\ levels' = levels
      /\ pollNext' = pollNext /\ ioValues' = ioValues /\ told' = told /\ polls' = polls
    BY DEF TaGpioRegisterInputChangeCallback
<1>3. /\ CallbackList' \in [GpioInputs -> Seq(GpioCallbacks)]
      /\ Range(CallbackList'[i]) = {c} \cup Range(CallbackList[i])
      /\ \A j \in GpioInputs \ {i} : CallbackList'[j] = CallbackList[j]
  <2>1. CallbackList[i] \in Seq(GpioCallbacks) BY DEF GpioTypes
  <2>2. PICK list : list = <<c>> \o CallbackList[i] OBVIOUS
  <2>3. list \in Seq(GpioCallbacks) /\ Range(list) = {c} \cup Range(CallbackList[i])
      BY <2>1, <2>2, RangeOfCons
  <2>4. CallbackList' = [CallbackList EXCEPT ![i] = list] BY <1>1, <2>2
  <2> QED BY <2>3, <2>4 DEF GpioTypes
<1>4. /\ DOMAIN callback' = DOMAIN callback \cup {c}
      /\ callback'[c] = NewCallback
      /\ \A d \in DOMAIN callback : d # c /\ callback'[d] = callback[d]
    BY <1>1
<1>5. GpioTypes' BY <1>1, <1>2, <1>3, <1>4 DEF GpioTypes, InputTags
<1>6. RegisteredOnce'
  <2>1. \A j \in GpioInputs : c \notin Range(CallbackList[j]) BY <1>1 DEF RegisteredOnce
  <2> QED BY <1>1, <1>2, <1>3, <1>4, <2>1 DEF RegisteredOnce
<1>7. ToldOK'
  <2>1. told[c] = <<>> BY <1>1 DEF ToldOK
  <2>2. NewCallback.IsDirty BY DEF NewCallback
  <2> QED BY <1>2, <1>4, <2>1, <2>2 DEF ToldOK
<1>8. CurrentOK'
  <2>1. since'[c] = polls /\ polls \in Nat /\ \A d \in GpioCallbacks \ {c} : since'[d] = since[d]
      BY <1>1 DEF GpioTypes
  <2>2. ASSUME NEW j \in GpioInputs, NEW d \in Range(CallbackList'[j])
        PROVE  /\ since'[d] <= polls
               /\ since'[d] < polls => ~callback'[d].IsDirty /\ callback'[d].IoValue = ioValues[j]
    <3>1. CASE d = c BY <2>1, <3>1
    <3>2. CASE d # c
      <4>1. d \in Range(CallbackList[j]) BY <1>3, <2>2, <3>2
      <4>2. d \in DOMAIN callback BY <4>1 DEF RegisteredOnce
      <4>3. since'[d] = since[d] /\ callback'[d] = callback[d]
          BY <1>4, <2>1, <3>2, <4>2 DEF GpioTypes
      <4> QED BY <4>1, <4>3 DEF CurrentOK
    <3> QED BY <3>1, <3>2
  <2> QED BY <1>2, <2>2 DEF CurrentOK
<1> QED BY <1>5, <1>6, <1>7, <1>8

LEMMA PollInputKeeps == GpioInv /\ PollInput => GpioInv'
<1> SUFFICES ASSUME GpioInv, PollInput PROVE GpioInv' OBVIOUS
<1> USE DEF GpioInv
<1>1. PICK p, theirs, value :
          p = pollNext /\ theirs = Range(CallbackList[p]) /\ value = levels[inputs[p].tag]
    OBVIOUS
<1>2. /\ gpioPc = "polling" /\ p \in GpioInputs /\ pollNext' = p + 1
      /\ gpioPc' = gpioPc /\ inputs' = inputs /\ levels' = levels
      /\ CallbackList' = CallbackList /\ since' = since /\ polls' = polls
    BY <1>1 DEF PollInput
<1>3. theirs = {} => ioValues' = ioValues /\ callback' = callback /\ told' = told
    BY <1>1 DEF PollInput
<1>4. theirs # {} =>
         /\ ioValues' = [ioValues EXCEPT ![p] = value]
         /\ callback' = [c \in DOMAIN callback |->
               IF c \in theirs THEN [IsDirty |-> FALSE, IoValue |-> value] ELSE callback[c]]
         /\ told' = [c \in GpioCallbacks |->
               IF c \in theirs /\ Tells(c, value) THEN Append(told[c], value) ELSE told[c]]
    BY <1>1 DEF PollInput
<1>5. theirs \subseteq DOMAIN callback /\ theirs \subseteq GpioCallbacks
    BY <1>1, <1>2 DEF RegisteredOnce, GpioTypes
<1>6. theirs # {} => value \in Levels
  <2> SUFFICES ASSUME theirs # {} PROVE value \in Levels OBVIOUS
  <2>1. inputs[p].valid BY <1>1, <1>2 DEF RegisteredOnce
  <2>2. inputs[p].tag \in InputTags(inputs) BY <1>2, <2>1 DEF InputTags
  <2> QED BY <1>1, <1>2, <2>2 DEF GpioTypes
<1>7. /\ DOMAIN callback' = DOMAIN callback
      /\ \A c \in theirs : ~callback'[c].IsDirty /\ callback'[c].IoValue = value
      /\ \A c \in DOMAIN callback \ theirs : callback'[c] = callback[c]
    BY <1>3, <1>4, <1>5
<1>8. /\ DOMAIN ioValues' = GpioInputs
      /\ theirs # {} => ioValues'[p] = value
      /\ \A i \in GpioInputs \ {p} : ioValues'[i] = ioValues[i]
    BY <1>2, <1>3, <1>4 DEF GpioTypes
<1>9. ASSUME NEW c \in theirs
      PROVE  /\ told'[c] \in Seq(Levels) /\ told'[c] # <<>> /\ Last(told'[c]) = value
             /\ \A k \in 2 .. Len(told'[c]) : told'[c][k] # told'[c][k - 1]
  <2>1. c \in GpioCallbacks /\ c \in DOMAIN callback /\ value \in Levels
        /\ told[c] \in Seq(Levels)
        /\ \A k \in 2 .. Len(told[c]) : told[c][k] # told[c][k - 1]
      BY <1>5, <1>6, <1>9 DEF GpioTypes, ToldOK
  <2>2. told'[c] = IF Tells(c, value) THEN Append(told[c], value) ELSE told[c]
      BY <1>4, <1>9, <2>1
  <2>3. CASE Tells(c, value)
    <3>1. told[c] = <<>> \/ Last(told[c]) # value BY <2>1, <2>3 DEF Tells, ToldOK
    <3>2. PICK s : s = told[c] OBVIOUS
    <3>3. told'[c] = Append(s, value) BY <2>2, <2>3, <3>2
    <3> QED BY <2>1, <3>1, <3>2, <3>3, ToldOnce
  <2>4. CASE ~Tells(c, value)
    <3>1. told[c] # <<>> /\ Last(told[c]) = value BY <2>1, <2>4 DEF Tells, ToldOK
    <3> QED BY <2>1, <2>2, <2>4, <3>1
  <2> QED BY <2>3, <2>4
<1>10. \A c \in GpioCallbacks \ theirs : told'[c] = told[c]
    BY <1>3, <1>4
<1>11. told' \in [GpioCallbacks -> Seq(Levels)]
  <2>1. \A c \in GpioCallbacks : told'[c] \in Seq(Levels) BY <1>9, <1>10 DEF GpioTypes
  <2>2. told' = [c \in GpioCallbacks |-> told'[c]] BY <1>3, <1>4 DEF GpioTypes
  <2> QED BY <2>1, <2>2
<1>12. p \in Nat BY <1>2 DEF GpioInputs
<1>13. GpioTypes' BY <1>2, <1>7, <1>8, <1>11, <1>12 DEF GpioTypes, InputTags
<1>14. RegisteredOnce' BY <1>2, <1>7 DEF RegisteredOnce
<1>15. ToldOK'
  <2>1. \A c \in GpioCallbacks \ DOMAIN callback' : told'[c] = <<>>
      BY <1>5, <1>7, <1>10 DEF ToldOK
  <2>2. ASSUME NEW c \in DOMAIN callback'
        PROVE  IF callback'[c].IsDirty THEN told'[c] = <<>>
               ELSE told'[c] # <<>> /\ callback'[c].IoValue = Last(told'[c])
    <3>1. CASE c \in theirs BY <1>7, <1>9, <3>1
    <3>2. CASE c \notin theirs
      <4>1. callback'[c] = callback[c] /\ told'[c] = told[c] /\ c \in DOMAIN callback
          BY <1>7, <1>10, <2>2, <3>2 DEF GpioTypes
      <4> QED BY <4>1 DEF ToldOK
    <3> QED BY <3>1, <3>2
  <2>3. \A c \in GpioCallbacks : \A k \in 2 .. Len(told'[c]) : told'[c][k] # told'[c][k - 1]
      BY <1>9, <1>10 DEF ToldOK
  <2> QED BY <2>1, <2>2, <2>3 DEF ToldOK
<1>16. CurrentOK'
  <2>1. ASSUME NEW i \in GpioInputs, NEW c \in Range(CallbackList[i])
        PROVE  /\ since[c] <= polls
               /\ since[c] < polls \/ i < p + 1 =>
                     ~callback'[c].IsDirty /\ callback'[c].IoValue = ioValues'[i]
    <3>1. since[c] <= polls BY DEF CurrentOK
    <3>2. CASE i = p
      <4>1. c \in theirs BY <1>1, <2>1, <3>2
      <4> QED BY <1>7, <1>8, <3>1, <3>2, <4>1
    <3>3. CASE i # p
      <4>1. c \notin theirs /\ c \in DOMAIN callback
          BY <1>1, <1>2, <2>1, <3>3 DEF RegisteredOnce
      <4>2. callback'[c] = callback[c] /\ ioValues'[i] = ioValues[i] BY <1>7, <1>8, <3>3, <4>1
      <4>3. i < p + 1 => i < p BY <1>2, <3>3 DEF GpioInputs
      <4> QED BY <1>1, <1>2, <2>1, <3>1, <4>2, <4>3 DEF CurrentOK
    <3> QED BY <3>2, <3>3
  <2> QED BY <1>2, <2>1 DEF CurrentOK
<1> QED BY <1>13, <1>14, <1>15, <1>16

LEMMA GpioStep == GpioInv /\ [GpioNext]_gpioVars => GpioInv'
<1> SUFFICES ASSUME GpioInv, [GpioNext]_gpioVars PROVE GpioInv' OBVIOUS
<1> USE DEF GpioInv
<1>1. CASE TaGpioInit
  <2>1. /\ gpioPc = "new" /\ levels' = [t \in InputTags(inputs') |-> 0]
        /\ CallbackList' = CallbackList /\ callback' = callback /\ pollNext' = pollNext
        /\ ioValues' = ioValues /\ told' = told /\ since' = since /\ polls' = polls
      BY <1>1 DEF TaGpioInit
  <2>2. levels' \in [InputTags(inputs') -> Levels] BY <2>1 DEF Levels
  <2>3. GpioTypes'
    <3>1. InputTags(inputs)' = InputTags(inputs') BY DEF InputTags
    <3> QED BY <2>1, <2>2, <3>1 DEF GpioTypes
  <2>4. \A i \in GpioInputs : Range(CallbackList[i]) = {} BY <2>1 DEF RegisteredOnce
  <2>5. ToldOK' BY <2>1 DEF ToldOK
  <2> QED BY <2>1, <2>3, <2>4, <2>5 DEF RegisteredOnce, CurrentOK
<1>2. CASE LevelChanges
  <2>1. PICK t \in DOMAIN levels, level \in {-1, 0, 1} : levels' = [levels EXCEPT ![t] = level]
      BY <1>2 DEF LevelChanges
  <2>2. /\ gpioPc \in {"sleeping", "polling"} /\ gpioPc' = gpioPc /\ inputs' = inputs
        /\ CallbackList' = CallbackList /\ callback' = callback /\ pollNext' = pollNext
        /\ ioValues' = ioValues /\ told' = told /\ since' = since /\ polls' = polls
      BY <1>2 DEF LevelChanges
  <2>3. levels' \in [InputTags(inputs) -> Levels] BY <2>1, <2>2 DEF GpioTypes, Levels
  <2>4. GpioTypes' BY <2>2, <2>3 DEF GpioTypes, InputTags
  <2> QED BY <2>2, <2>4 DEF RegisteredOnce, ToldOK, CurrentOK
<1>3. CASE TaGpioRegisterInputChangeCallback BY <1>3, RegisterKeeps
<1>4. CASE TaGpioWrite
    BY <1>4 DEF TaGpioWrite, GpioTypes, RegisteredOnce, ToldOK, CurrentOK, InputTags
<1>5. CASE PollBegins
  <2>1. /\ gpioPc = "sleeping" /\ gpioPc' = "polling" /\ pollNext' = 0
        /\ inputs' = inputs /\ levels' = levels
        /\ CallbackList' = CallbackList /\ callback' = callback
        /\ ioValues' = ioValues /\ told' = told /\ since' = since /\ polls' = polls
      BY <1>5 DEF PollBegins
  <2>2. GpioTypes' BY <2>1 DEF GpioTypes, InputTags
  <2>3. RegisteredOnce' BY <2>1 DEF RegisteredOnce
  <2>4. ToldOK' BY <2>1 DEF ToldOK
  <2>5. \A i \in GpioInputs : ~(i < 0) BY DEF GpioInputs
  <2>6. CurrentOK' BY <2>1, <2>5 DEF CurrentOK
  <2> QED BY <2>2, <2>3, <2>4, <2>6
<1>6. CASE PollInput BY <1>6, PollInputKeeps
<1>7. CASE PollEnds
  <2>1. /\ gpioPc = "polling" /\ pollNext \notin GpioInputs
        /\ gpioPc' = "sleeping" /\ polls' = polls + 1 /\ pollNext' = pollNext
        /\ inputs' = inputs /\ levels' = levels
        /\ CallbackList' = CallbackList /\ callback' = callback
        /\ ioValues' = ioValues /\ told' = told /\ since' = since
      BY <1>7 DEF PollEnds
  <2>2. GpioTypes' BY <2>1 DEF GpioTypes, InputTags
  <2>3. RegisteredOnce' BY <2>1 DEF RegisteredOnce
  <2>4. ToldOK' BY <2>1 DEF ToldOK
  <2>5. \A i \in GpioInputs : i < pollNext BY <2>1 DEF GpioInputs, GpioTypes
  <2>6. CurrentOK'
    <3>1. ASSUME NEW i \in GpioInputs, NEW c \in Range(CallbackList[i])
          PROVE  /\ since[c] <= polls + 1
                 /\ ~callback[c].IsDirty /\ callback[c].IoValue = ioValues[i]
      <4>1. since[c] <= polls /\ ~callback[c].IsDirty /\ callback[c].IoValue = ioValues[i]
          BY <2>1, <2>5, <3>1 DEF CurrentOK
      <4>2. c \in GpioCallbacks BY <3>1 DEF RegisteredOnce, GpioTypes
      <4> QED BY <4>1, <4>2 DEF GpioTypes
    <3> QED BY <2>1, <3>1 DEF CurrentOK
  <2> QED BY <2>2, <2>3, <2>4, <2>6
<1>8. CASE UNCHANGED gpioVars
    BY <1>8 DEF gpioVars, GpioTypes, RegisteredOnce, ToldOK, CurrentOK, InputTags
<1> QED BY <1>1, <1>2, <1>3, <1>4, <1>5, <1>6, <1>7, <1>8 DEF GpioNext

LEMMA GpioInvariant == Spec => []GpioInv
<1>1. Init => GpioInv BY GpioStarts DEF Init
<1>2. [Next]_vars => [GpioNext]_gpioVars
    BY DEF Next, vars, TimersRun, WorkQueueRuns, LogRuns, EventsRun, StoreRuns, GpioRuns
<1>3. GpioInv /\ [Next]_vars => GpioInv' BY <1>2, GpioStep
<1> QED BY <1>1, <1>3, PTL DEF Spec

\* GpioInput::Execute, GpioInputCallbackData::Execute: between the polls every
\* callback that a poll has seen was told last what its input was read as, the
\* first value too, and none is told one value twice in a row, whatever the
\* pins do and whenever callbacks are registered.
THEOREM CallbacksAreCurrent == Spec => []CallbacksCurrent
<1>1. GpioInv => CallbacksCurrent
  <2> SUFFICES ASSUME GpioInv, NEW i \in GpioInputs, NEW c \in Range(CallbackList[i])
               PROVE  /\ \A k \in 2 .. Len(told[c]) : told[c][k] # told[c][k - 1]
                      /\ gpioPc = "sleeping" /\ since[c] < polls =>
                            told[c] # <<>> /\ Last(told[c]) = ioValues[i]
      BY DEF CallbacksCurrent
  <2>1. c \in DOMAIN callback /\ c \in GpioCallbacks
      BY DEF GpioInv, RegisteredOnce, GpioTypes
  <2> QED BY <2>1 DEF GpioInv, ToldOK, CurrentOK
<1> QED BY <1>1, GpioInvariant, PTL

(***************************************************************************)
(* The system events.                                                       *)
(***************************************************************************)
EventTypes ==
    /\ Observers \in Seq(Subscribers) /\ StaticObservers \in Seq(Subscribers)
    /\ Range(Observers) \subseteq EventObservers
    /\ Range(StaticObservers) \subseteq EventHandlers \X EventData
    /\ toCall \in Seq(Subscribers) /\ raised \in Seq(Subscribers)
    /\ subscribed \in [Subscribers -> Nat] /\ destroyed \in BOOLEAN

\* The two lists hold each subscriber once per subscription.
Listed(observers, statics, s) == Len(Sublist(observers, {s})) + Len(Sublist(statics, {s}))
SubscriptionsListed ==
    ~destroyed => \A s \in Subscribers : Listed(Observers, StaticObservers, s) = subscribed[s]

\* What was called and what is still to be called are the lists, unchanged.
RaiseFollowsLists ==
    toCall # <<>> \/ raised # <<>> =>
        ~destroyed /\ raised \o toCall = Observers \o StaticObservers

EventInv == EventTypes /\ SubscriptionsListed /\ RaiseFollowsLists

LEMMA CountConcat ==
    ASSUME NEW T, NEW a \in Seq(T), NEW b \in Seq(T), NEW S
    PROVE  /\ Len(Sublist(a, S)) \in Nat /\ Len(Sublist(b, S)) \in Nat
           /\ Len(Sublist(a \o b, S)) = Len(Sublist(a, S)) + Len(Sublist(b, S))
<1>1. Sublist(a, S) \in Seq(T) /\ Sublist(b, S) \in Seq(T) BY SublistKeeps
<1>2. Sublist(a \o b, S) = Sublist(a, S) \o Sublist(b, S) BY SublistConcat
<1> QED BY <1>1, <1>2, ConcatProperties, LenProperties

LEMMA CountsAreNat ==
    \A list \in Seq(Subscribers) : \A s : Len(Sublist(list, {s})) \in Nat
<1> SUFFICES ASSUME NEW list \in Seq(Subscribers), NEW s PROVE Len(Sublist(list, {s})) \in Nat
    OBVIOUS
<1>1. Sublist(list, {s}) \in Seq(Subscribers) BY SublistKeeps
<1> QED BY <1>1, LenProperties

\* A subscription puts its subscriber at the front of its list.
HasOneMore(longer, list, x) ==
    /\ Range(longer) = Range(list) \cup {x}
    /\ \A s : Len(Sublist(longer, {s})) = Len(Sublist(list, {s})) + (IF s = x THEN 1 ELSE 0)

LEMMA Prepended ==
    ASSUME NEW T, NEW list \in Seq(T), NEW x \in T, NEW one, one = <<x>>
    PROVE  one \o list \in Seq(T) /\ HasOneMore(one \o list, list, x)
<1>1. one = <<x>> OBVIOUS
<1>2. one \in Seq(T) /\ list \in Seq(T) BY <1>1
<1>3. one \o list \in Seq(T) BY ONLY <1>2, ConcatProperties
<1>4. Range(one \o list) = Range(one) \cup Range(list) BY ONLY <1>2, RangeConcatenation
<1>5. Range(one) = {x} BY <1>1 DEF Range
<1>6. ASSUME NEW s
      PROVE  Len(Sublist(one \o list, {s})) = Len(Sublist(list, {s})) + (IF s = x THEN 1 ELSE 0)
  <2>1. PICK S : S = {s} OBVIOUS
  <2>2. Sublist(one, S) = IF x \in S THEN <<x>> ELSE <<>> BY <1>1, SublistOfOne
  <2>3. Len(Sublist(one, S)) = IF s = x THEN 1 ELSE 0
    <3>1. Len(<<x>>) = 1 /\ Len(<<>>) = 0 OBVIOUS
    <3> QED BY <2>1, <2>2, <3>1
  <2>4. /\ Len(Sublist(list, S)) \in Nat
        /\ Len(Sublist(one \o list, S)) = Len(Sublist(one, S)) + Len(Sublist(list, S))
      BY ONLY <1>2, CountConcat
  <2> QED BY <2>1, <2>3, <2>4
<1> QED BY <1>3, <1>4, <1>5, <1>6 DEF HasOneMore

LEMMA EventStarts == EventInit => EventInv
<1> SUFFICES ASSUME EventInit PROVE EventInv OBVIOUS
<1> USE DEF EventInit
<1>1. <<>> \in Seq(Subscribers) /\ Len(<<>>) = 0 /\ Range(<<>>) = {} BY EmptySeq DEF Range
<1>2. EventTypes BY <1>1 DEF EventTypes
<1>3. SubscriptionsListed
  <2>1. ASSUME NEW s PROVE Listed(Observers, StaticObservers, s) = 0
      BY <1>1, SublistOfNone DEF Listed
  <2> QED BY <2>1 DEF SubscriptionsListed
<1>4. RaiseFollowsLists BY DEF RaiseFollowsLists
<1> QED BY <1>2, <1>3, <1>4 DEF EventInv

LEMMA EventStep == EventInv /\ [EventNext]_eventVars => EventInv'
<1> SUFFICES ASSUME EventInv, [EventNext]_eventVars PROVE EventInv' OBVIOUS
<1> USE DEF EventInv
<1>0. <<>> \in Seq(Subscribers) BY EmptySeq
<1>1. CASE SubscribeObserver
  <2>1. PICK o \in EventObservers :
           /\ ~destroyed /\ destroyed' = destroyed /\ toCall = <<>> /\ toCall' = toCall
           /\ raised' = <<>> /\ Observers' = <<o>> \o Observers
           /\ subscribed' = [subscribed EXCEPT ![o] = @ + 1]
           /\ StaticObservers' = StaticObservers
      BY <1>1 DEF SubscribeObserver, EventLockFree
  <2>2. o \in Subscribers BY DEF Subscribers
  <2>3. /\ Observers' \in Seq(Subscribers)
        /\ Range(Observers') = Range(Observers) \cup {o}
        /\ \A s : Len(Sublist(Observers', {s})) =
                  Len(Sublist(Observers, {s})) + (IF s = o THEN 1 ELSE 0)
    <3>1. PICK list : list = Observers OBVIOUS
    <3>2. list \in Seq(Subscribers) BY <3>1 DEF EventTypes
    <3>3. /\ <<o>> \o list \in Seq(Subscribers)
          /\ Range(<<o>> \o list) = Range(list) \cup {o}
          /\ \A s : Len(Sublist(<<o>> \o list, {s})) =
                    Len(Sublist(list, {s})) + (IF s = o THEN 1 ELSE 0)
      <4>1. PICK one : one = <<o>> OBVIOUS
      <4>2. one \o list \in Seq(Subscribers) /\ HasOneMore(one \o list, list, o)
          BY ONLY <2>2, <3>2, <4>1, Prepended
      <4> QED BY <4>1, <4>2 DEF HasOneMore
    <3> QED BY <2>1, <3>1, <3>3
  <2>4. EventTypes'
    <3>1. subscribed' \in [Subscribers -> Nat] BY <2>1, <2>2 DEF EventTypes
    <3>2. Range(Observers') \subseteq EventObservers BY <2>1, <2>3 DEF EventTypes
    <3> QED BY <1>0, <2>1, <2>3, <3>1, <3>2 DEF EventTypes
  <2>5. ASSUME NEW s \in Subscribers PROVE Listed(Observers', StaticObservers', s) = subscribed'[s]
    <3>1. PICK p, q, u : /\ p = Len(Sublist(Observers, {s})) /\ q = Len(Sublist(StaticObservers, {s}))
                         /\ u = subscribed[s]
        OBVIOUS
    <3>2. p \in Nat /\ q \in Nat /\ u \in Nat BY <3>1, CountsAreNat DEF EventTypes
    <3>3. p + q = u BY <2>1, <3>1, <3>2 DEF SubscriptionsListed, Listed
    <3>4. subscribed'[s] = u + (IF s = o THEN 1 ELSE 0) BY <2>1, <3>1 DEF EventTypes
    <3>5. Len(Sublist(Observers', {s})) = p + (IF s = o THEN 1 ELSE 0) BY <2>3, <3>1
    <3>6. Len(Sublist(StaticObservers', {s})) = q BY <2>1, <3>1
    <3> QED BY <3>2, <3>3, <3>4, <3>5, <3>6 DEF Listed
  <2>6. RaiseFollowsLists' BY <2>1 DEF RaiseFollowsLists
  <2> QED BY <2>4, <2>5, <2>6 DEF SubscriptionsListed
<1>2. CASE SubscribeStatic
  <2>1. PICK o \in EventHandlers \X EventData :
           /\ ~destroyed /\ destroyed' = destroyed /\ toCall = <<>> /\ toCall' = toCall
           /\ raised' = <<>> /\ StaticObservers' = <<o>> \o StaticObservers
           /\ subscribed' = [subscribed EXCEPT ![o] = @ + 1]
           /\ Observers' = Observers
      BY <1>2 DEF SubscribeStatic, EventLockFree
  <2>2. o \in Subscribers BY DEF Subscribers
  <2>3. /\ StaticObservers' \in Seq(Subscribers)
        /\ Range(StaticObservers') = Range(StaticObservers) \cup {o}
        /\ \A s : Len(Sublist(StaticObservers', {s})) =
                  Len(Sublist(StaticObservers, {s})) + (IF s = o THEN 1 ELSE 0)
    <3>1. PICK list : list = StaticObservers OBVIOUS
    <3>2. list \in Seq(Subscribers) BY <3>1 DEF EventTypes
    <3>3. /\ <<o>> \o list \in Seq(Subscribers)
          /\ Range(<<o>> \o list) = Range(list) \cup {o}
          /\ \A s : Len(Sublist(<<o>> \o list, {s})) =
                    Len(Sublist(list, {s})) + (IF s = o THEN 1 ELSE 0)
      <4>1. PICK one : one = <<o>> OBVIOUS
      <4>2. one \o list \in Seq(Subscribers) /\ HasOneMore(one \o list, list, o)
          BY ONLY <2>2, <3>2, <4>1, Prepended
      <4> QED BY <4>1, <4>2 DEF HasOneMore
    <3> QED BY <2>1, <3>1, <3>3
  <2>4. EventTypes'
    <3>1. subscribed' \in [Subscribers -> Nat] BY <2>1, <2>2 DEF EventTypes
    <3>2. Range(StaticObservers') \subseteq EventHandlers \X EventData BY <2>1, <2>3 DEF EventTypes
    <3> QED BY <1>0, <2>1, <2>3, <3>1, <3>2 DEF EventTypes
  <2>5. ASSUME NEW s \in Subscribers PROVE Listed(Observers', StaticObservers', s) = subscribed'[s]
    <3>1. PICK p, q, u : /\ p = Len(Sublist(StaticObservers, {s})) /\ q = Len(Sublist(Observers, {s}))
                         /\ u = subscribed[s]
        OBVIOUS
    <3>2. p \in Nat /\ q \in Nat /\ u \in Nat BY <3>1, CountsAreNat DEF EventTypes
    <3>3. p + q = u BY <2>1, <3>1, <3>2 DEF SubscriptionsListed, Listed
    <3>4. subscribed'[s] = u + (IF s = o THEN 1 ELSE 0) BY <2>1, <3>1 DEF EventTypes
    <3>5. Len(Sublist(StaticObservers', {s})) = p + (IF s = o THEN 1 ELSE 0) BY <2>3, <3>1
    <3>6. Len(Sublist(Observers', {s})) = q BY <2>1, <3>1
    <3> QED BY <3>2, <3>3, <3>4, <3>5, <3>6 DEF Listed
  <2>6. RaiseFollowsLists' BY <2>1 DEF RaiseFollowsLists
  <2> QED BY <2>4, <2>5, <2>6 DEF SubscriptionsListed
<1>3. CASE UnsubscribeObserver
  <2>1. PICK o \in EventObservers :
           /\ ~destroyed /\ destroyed' = destroyed /\ toCall = <<>> /\ toCall' = toCall
           /\ raised' = <<>> /\ Observers' = Sublist(Observers, Range(Observers) \ {o})
           /\ subscribed' = [subscribed EXCEPT ![o] = 0]
           /\ StaticObservers' = StaticObservers
      BY <1>3 DEF UnsubscribeObserver, EventLockFree
  <2>2. o \in Subscribers BY DEF Subscribers
  <2>3. Observers' \in Seq(Subscribers) /\ Range(Observers') \subseteq Range(Observers)
      BY <2>1, SublistKeeps DEF EventTypes
  <2>4. EventTypes' BY <1>0, <2>1, <2>2, <2>3 DEF EventTypes
  <2>5. ASSUME NEW s \in Subscribers PROVE Listed(Observers', StaticObservers', s) = subscribed'[s]
    <3>1. /\ Len(Sublist(Observers, {s})) \in Nat /\ Len(Sublist(StaticObservers, {s})) \in Nat
        BY CountsAreNat DEF EventTypes
    <3>2. Listed(Observers, StaticObservers, s) = subscribed[s] BY <2>1 DEF SubscriptionsListed
    <3>3. CASE s = o
      <4>1. Sublist(Observers', {s}) = <<>>
        <5>1. s \notin Range(Observers) \ {o} BY <3>3
        <5>2. PICK list, K : list = Observers /\ K = Range(Observers) \ {o} OBVIOUS
        <5>3. list \in Seq(Subscribers) /\ s \notin K BY <5>1, <5>2 DEF EventTypes
        <5>4. Sublist(Sublist(list, K), {s}) = <<>> BY ONLY <5>3, Removal
        <5> QED BY <2>1, <5>2, <5>4
      <4>2. Sublist(StaticObservers, {s}) = <<>>
        <5>1. Range(StaticObservers) \cap {s} = {} BY <3>3, EventAssumption DEF EventTypes
        <5> QED BY <5>1, NoneKept DEF EventTypes
      <4>3. subscribed'[s] = 0 BY <2>1, <2>2, <3>3 DEF EventTypes
      <4> QED BY <1>0, <2>1, <4>1, <4>2, <4>3 DEF Listed
    <3>4. CASE s # o
      <4>1. Sublist(Observers', {s}) = Sublist(Observers, {s})
        <5>1. s \in Range(Observers) \ {o} \/ s \notin Range(Observers) BY <3>4
        <5> QED BY <2>1, <5>1, Removal DEF EventTypes
      <4>2. subscribed'[s] = subscribed[s] BY <2>1, <3>4 DEF EventTypes
      <4> QED BY <2>1, <3>2, <4>1, <4>2 DEF Listed
    <3> QED BY <3>3, <3>4
  <2>6. RaiseFollowsLists' BY <2>1 DEF RaiseFollowsLists
  <2> QED BY <2>4, <2>5, <2>6 DEF SubscriptionsListed
<1>4. CASE UnsubscribeStatic
  <2>1. PICK h \in EventHandlers :
           /\ ~destroyed /\ destroyed' = destroyed /\ toCall = <<>> /\ toCall' = toCall
           /\ raised' = <<>>
           /\ StaticObservers' = Sublist(StaticObservers, {x \in Range(StaticObservers) : x[1] # h})
           /\ subscribed' = [s \in Subscribers |->
                                IF s \in {h} \X EventData THEN 0 ELSE subscribed[s]]
           /\ Observers' = Observers
      BY <1>4 DEF UnsubscribeStatic, EventLockFree, WithoutHandler
  <2>2. PICK K : K = {x \in Range(StaticObservers) : x[1] # h} OBVIOUS
  <2>3. /\ StaticObservers' \in Seq(Subscribers)
        /\ Range(StaticObservers') \subseteq Range(StaticObservers)
      BY <2>1, SublistKeeps DEF EventTypes
  <2>4. EventTypes' BY <1>0, <2>1, <2>3 DEF EventTypes
  <2>5. ASSUME NEW s \in Subscribers PROVE Listed(Observers', StaticObservers', s) = subscribed'[s]
    <3>1. /\ Len(Sublist(Observers, {s})) \in Nat /\ Len(Sublist(StaticObservers, {s})) \in Nat
        BY CountsAreNat DEF EventTypes
    <3>2. Listed(Observers, StaticObservers, s) = subscribed[s] BY <2>1 DEF SubscriptionsListed
    <3>3. CASE s \in {h} \X EventData
      <4>1. Sublist(StaticObservers', {s}) = <<>>
        <5>1. PICK list : list = StaticObservers OBVIOUS
        <5>2. list \in Seq(Subscribers) /\ s \notin K BY <2>2, <3>3, <5>1 DEF EventTypes
        <5>3. Sublist(Sublist(list, K), {s}) = <<>> BY ONLY <5>2, Removal
        <5> QED BY <2>1, <2>2, <5>1, <5>3
      <4>2. Sublist(Observers, {s}) = <<>>
        <5>1. s \in EventHandlers \X EventData BY <3>3
        <5>2. Range(Observers) \cap {s} = {} BY <5>1, EventAssumption DEF EventTypes
        <5> QED BY <5>2, NoneKept DEF EventTypes
      <4>3. subscribed'[s] = 0 BY <2>1, <3>3
      <4> QED BY <1>0, <2>1, <4>1, <4>2, <4>3 DEF Listed
    <3>4. CASE s \notin {h} \X EventData
      <4>1. Sublist(StaticObservers', {s}) = Sublist(StaticObservers, {s})
        <5>1. s \in K \/ s \notin Range(StaticObservers)
            BY <2>2, <3>4 DEF EventTypes
        <5> QED BY <2>1, <2>2, <5>1, Removal DEF EventTypes
      <4>2. subscribed'[s] = subscribed[s] BY <2>1, <3>4
      <4> QED BY <2>1, <3>2, <4>1, <4>2 DEF Listed
    <3> QED BY <3>3, <3>4
  <2>6. RaiseFollowsLists' BY <2>1 DEF RaiseFollowsLists
  <2> QED BY <2>4, <2>5, <2>6 DEF SubscriptionsListed
<1>5. CASE RaiseEvent
  <2>1. /\ ~destroyed /\ destroyed' = destroyed /\ toCall' = Observers \o StaticObservers
        /\ raised' = <<>> /\ subscribed' = subscribed
        /\ Observers' = Observers /\ StaticObservers' = StaticObservers
      BY <1>5 DEF RaiseEvent, EventLockFree
  <2>2. toCall' \in Seq(Subscribers) BY <2>1, ConcatProperties DEF EventTypes
  <2>3. EventTypes' BY <1>0, <2>1, <2>2 DEF EventTypes
  <2>4. <<>> \o toCall' = toCall' BY <2>2, ConcatEmptySeq
  <2> QED BY <2>1, <2>3, <2>4 DEF SubscriptionsListed, RaiseFollowsLists
<1>6. CASE CallHandler
  <2>1. /\ toCall # <<>> /\ raised' = Append(raised, Head(toCall)) /\ toCall' = Tail(toCall)
        /\ destroyed' = destroyed /\ subscribed' = subscribed
        /\ Observers' = Observers /\ StaticObservers' = StaticObservers
      BY <1>6 DEF CallHandler
  <2>2. PICK s, t, h, u : s = raised /\ t = toCall /\ h = Head(toCall) /\ u = Tail(toCall) OBVIOUS
  <2>3. /\ s \in Seq(Subscribers) /\ t \in Seq(Subscribers) /\ h \in Subscribers
        /\ u \in Seq(Subscribers) /\ t = <<h>> \o u
    <3>1. s \in Seq(Subscribers) /\ t \in Seq(Subscribers) /\ t # <<>> BY <2>1, <2>2 DEF EventTypes
    <3>2. Head(t) \in Subscribers /\ Tail(t) \in Seq(Subscribers) BY <3>1, HeadTailProperties
    <3>3. t = <<Head(t)>> \o Tail(t) BY <3>1
    <3> QED BY <2>2, <3>1, <3>2, <3>3
  <2>4. Append(s, h) \in Seq(Subscribers) BY <2>3
  <2>5. Append(s, h) \o u = s \o t
    <3>1. PICK one : one = <<h>> OBVIOUS
    <3>2. one \in Seq(Subscribers) BY <2>3, <3>1
    <3>3. \A p, q, r \in Seq(Subscribers) : (p \o q) \o r = p \o (q \o r)
        BY ONLY ConcatAssociative
    <3>4. Append(s, h) = s \o one BY <2>3, <3>1, AppendIsConcat
    <3> QED BY <2>3, <3>1, <3>2, <3>3, <3>4
  <2>6. EventTypes' BY <2>1, <2>2, <2>3, <2>4 DEF EventTypes
  <2> QED BY <2>1, <2>2, <2>5, <2>6 DEF SubscriptionsListed, RaiseFollowsLists
<1>7. CASE DestroyEvent
  <2>1. /\ toCall = <<>> /\ toCall' = toCall /\ destroyed' /\ raised' = <<>>
        /\ Observers' = <<>> /\ StaticObservers' = <<>> /\ subscribed' = subscribed
        /\ destroyed' = TRUE
      BY <1>7 DEF DestroyEvent, EventLockFree
  <2>2. Range(<<>>) = {} BY DEF Range
  <2>3. EventTypes' BY <1>0, <2>1, <2>2 DEF EventTypes
  <2> QED BY <2>1, <2>3 DEF SubscriptionsListed, RaiseFollowsLists
<1>8. CASE UNCHANGED eventVars
    BY <1>8 DEF eventVars, EventTypes, SubscriptionsListed, RaiseFollowsLists
<1> QED BY <1>1, <1>2, <1>3, <1>4, <1>5, <1>6, <1>7, <1>8 DEF EventNext

\* SystemEvent::RaiseEvent: an event calls each subscriber at most, and in the
\* end exactly, as often as it has subscribed since it last unsubscribed,
\* whatever the observers, handlers and user data.
THEOREM RaisesReachTheirSubscribers == Spec => []RaisesReachSubscribers
<1>1. Init => EventInv BY EventStarts DEF Init
<1>2. [Next]_vars => [EventNext]_eventVars
    BY DEF Next, vars, TimersRun, WorkQueueRuns, LogRuns, EventsRun, StoreRuns, GpioRuns
<1>3. EventInv /\ [Next]_vars => EventInv' BY <1>2, EventStep
<1>4. EventInv => RaisesReachSubscribers
  <2> SUFFICES ASSUME EventInv, NEW s \in Subscribers
               PROVE  /\ Len(Sublist(raised, {s})) <= subscribed[s]
                      /\ toCall = <<>> /\ raised # <<>> =>
                            Len(Sublist(raised, {s})) = subscribed[s]
      BY DEF RaisesReachSubscribers
  <2> USE DEF EventInv
  <2>1. PICK a, b, c, d : a = Len(Sublist(raised, {s})) /\ b = Len(Sublist(toCall, {s}))
                          /\ c = Len(Sublist(Observers, {s}))
                          /\ d = Len(Sublist(StaticObservers, {s}))
      OBVIOUS
  <2>2. /\ a \in Nat /\ b \in Nat /\ c \in Nat /\ d \in Nat
        /\ Len(Sublist(raised \o toCall, {s})) = a + b
        /\ Len(Sublist(Observers \o StaticObservers, {s})) = c + d
    <3>0. PICK S : S = {s} OBVIOUS
    <3>1. \A p, q \in Seq(Subscribers) :
             /\ Len(Sublist(p, S)) \in Nat /\ Len(Sublist(q, S)) \in Nat
             /\ Len(Sublist(p \o q, S)) = Len(Sublist(p, S)) + Len(Sublist(q, S))
        BY ONLY CountConcat
    <3> QED BY <2>1, <3>0, <3>1 DEF EventTypes
  <2>3. CASE raised = <<>> /\ toCall = <<>>
    <3>1. a = 0 BY <2>1, <2>3, SublistOfNone
    <3> QED BY <2>1, <2>3, <3>1 DEF EventTypes
  <2>4. CASE raised # <<>> \/ toCall # <<>>
    <3>1. ~destroyed /\ raised \o toCall = Observers \o StaticObservers
        BY <2>4 DEF RaiseFollowsLists
    <3>2. a + b = c + d BY <2>2, <3>1
    <3>3. c + d = subscribed[s] BY <2>1, <3>1 DEF SubscriptionsListed, Listed
    <3>4. toCall = <<>> => b = 0 BY <2>1, SublistOfNone
    <3> QED BY <2>1, <2>2, <3>2, <3>3, <3>4
  <2> QED BY <2>3, <2>4
<1> QED BY <1>1, <1>3, <1>4, PTL DEF Spec


(***************************************************************************)
(* The timers.                                                              *)
(***************************************************************************)
Timespecs == {set_timespec_from_ms(n) : n \in Nat}

\* A time in milliseconds is split without loss.
LEMMA MsOfTimespec ==
    \A n \in Nat :
        /\ set_timespec_from_ms(n).sec = n \div 1000 /\ set_timespec_from_ms(n).sec \in Nat
        /\ set_timespec_from_ms(n).nsec = (n % 1000) * 1000000
        /\ n = (n \div 1000) * 1000 + (n % 1000) /\ n % 1000 \in 0 .. 999
        /\ Ms(set_timespec_from_ms(n)) = n
<1> SUFFICES ASSUME NEW n \in Nat
             PROVE  /\ set_timespec_from_ms(n).sec = n \div 1000
                    /\ set_timespec_from_ms(n).sec \in Nat
                    /\ set_timespec_from_ms(n).nsec = (n % 1000) * 1000000
                    /\ n = (n \div 1000) * 1000 + (n % 1000) /\ n % 1000 \in 0 .. 999
                    /\ Ms(set_timespec_from_ms(n)) = n
    BY SMT
<1>1. PICK q, r : q = n \div 1000 /\ r = n % 1000 BY SMT
<1>2. q \in Nat /\ r \in 0 .. 999 /\ n = q * 1000 + r BY SMT, <1>1
<1>3. set_timespec_from_ms(n) = [sec |-> q, nsec |-> r * 1000000]
    BY SMT, <1>1 DEF set_timespec_from_ms, Million
<1>4. (r * 1000000) \div 1000000 = r BY SMT, <1>2
<1> QED BY SMT, <1>1, <1>2, <1>3, <1>4 DEF Ms, Million

\* add_timespec, diff_timespec, compare_timespec, set_timespec_from_ms: on the
\* times the library makes of milliseconds, carries and borrows included, they
\* compute with the milliseconds, however many.
THEOREM TimesAreExact ==
    \A x, y \in Nat :
        LET a == set_timespec_from_ms(x)
            b == set_timespec_from_ms(y)
        IN  /\ Ms(a) = x
            /\ add_timespec(a, b) = set_timespec_from_ms(x + y)
            /\ x >= y => diff_timespec(a, b) = set_timespec_from_ms(x - y)
            /\ compare_timespec(a, b) = IF x > y THEN 1 ELSE IF x < y THEN -1 ELSE 0
<1> TAKE x, y \in Nat
<1> DEFINE a == set_timespec_from_ms(x)
           b == set_timespec_from_ms(y)
           p == x \div 1000
           q == x % 1000
           r == y \div 1000
           s == y % 1000
<1>1. p \in Nat /\ q \in 0 .. 999 /\ x = p * 1000 + q BY SMT
<1>2. r \in Nat /\ s \in 0 .. 999 /\ y = r * 1000 + s BY SMT
<1>3. a = [sec |-> p, nsec |-> q * Million] /\ b = [sec |-> r, nsec |-> s * Million]
    BY SMT DEF set_timespec_from_ms
<1>4. Ms(a) = x BY SMT, MsOfTimespec
<1> HIDE DEF a, b, p, q, r, s
<1>5. add_timespec(a, b) = set_timespec_from_ms(x + y)
  <2>1. CASE q + s < 1000
    <3>1. PICK n, d, m : n = x + y /\ d = p + r /\ m = q + s BY SMT
    <3>2. n \in Nat /\ d \in Nat /\ m \in 0 .. 999 /\ n = d * 1000 + m
        BY SMT, <1>1, <1>2, <2>1, <3>1
    <3>3. n \div 1000 = d /\ n % 1000 = m BY ONLY SMT, <3>2
    <3>4. set_timespec_from_ms(n) = [sec |-> d, nsec |-> m * Million]
        BY ONLY SMT, <3>3 DEF set_timespec_from_ms
    <3> QED BY SMT, <1>1, <1>2, <1>3, <2>1, <3>1, <3>4 DEF add_timespec, Billion, Million
  <2>2. CASE q + s >= 1000
    <3>1. PICK n, d, m : n = x + y /\ d = p + r + 1 /\ m = q + s - 1000 BY SMT
    <3>2. n \in Nat /\ d \in Nat /\ m \in 0 .. 999 /\ n = d * 1000 + m
        BY SMT, <1>1, <1>2, <2>2, <3>1
    <3>3. n \div 1000 = d /\ n % 1000 = m BY ONLY SMT, <3>2
    <3>4. set_timespec_from_ms(n) = [sec |-> d, nsec |-> m * Million]
        BY ONLY SMT, <3>3 DEF set_timespec_from_ms
    <3> QED BY SMT, <1>1, <1>2, <1>3, <2>2, <3>1, <3>4 DEF add_timespec, Billion, Million
  <2> QED BY SMT, <1>1, <1>2, <2>1, <2>2
<1>6. ASSUME x >= y PROVE diff_timespec(a, b) = set_timespec_from_ms(x - y)
  <2>1. CASE q >= s
    <3>1. PICK n, d, m : n = x - y /\ d = p - r /\ m = q - s BY SMT
    <3>2. n \in Nat /\ d \in Nat /\ m \in 0 .. 999 /\ n = d * 1000 + m
        BY SMT, <1>1, <1>2, <1>6, <2>1, <3>1
    <3>3. n \div 1000 = d /\ n % 1000 = m BY ONLY SMT, <3>2
    <3>4. set_timespec_from_ms(n) = [sec |-> d, nsec |-> m * Million]
        BY ONLY SMT, <3>3 DEF set_timespec_from_ms
    <3> QED BY SMT, <1>1, <1>2, <1>3, <2>1, <3>1, <3>4 DEF diff_timespec, Billion, Million
  <2>2. CASE q < s
    <3>1. PICK n, d, m : n = x - y /\ d = p - r - 1 /\ m = q - s + 1000 BY SMT
    <3>2. n \in Nat /\ d \in Nat /\ m \in 0 .. 999 /\ n = d * 1000 + m
        BY SMT, <1>1, <1>2, <1>6, <2>2, <3>1
    <3>3. n \div 1000 = d /\ n % 1000 = m BY ONLY SMT, <3>2
    <3>4. set_timespec_from_ms(n) = [sec |-> d, nsec |-> m * Million]
        BY ONLY SMT, <3>3 DEF set_timespec_from_ms
    <3> QED BY SMT, <1>1, <1>2, <1>3, <2>2, <3>1, <3>4 DEF diff_timespec, Billion, Million
  <2> QED BY SMT, <1>1, <1>2, <2>1, <2>2
<1>7. compare_timespec(a, b) = IF x > y THEN 1 ELSE IF x < y THEN -1 ELSE 0
  <2>1. PICK m, n : m = q * Million /\ n = s * Million BY SMT
  <2>2. m \in Int /\ n \in Int /\ p \in Int /\ r \in Int BY SMT, <1>1, <1>2, <2>1 DEF Million
  <2>3. a.sec = p /\ a.nsec = m /\ b.sec = r /\ b.nsec = n BY SMT, <1>3, <2>1
  <2>4. /\ x > y <=> p > r \/ (p = r /\ m > n)
        /\ x < y <=> p < r \/ (p = r /\ m < n)
      BY SMT, <1>1, <1>2, <2>1 DEF Million
  <2>5. CASE p > r BY ONLY SMT, <2>2, <2>3, <2>4, <2>5 DEF compare_timespec
  <2>6. CASE p < r BY ONLY SMT, <2>2, <2>3, <2>4, <2>6 DEF compare_timespec
  <2>7. CASE p = r /\ m > n BY ONLY SMT, <2>2, <2>3, <2>4, <2>7 DEF compare_timespec
  <2>8. CASE p = r /\ m < n BY ONLY SMT, <2>2, <2>3, <2>4, <2>8 DEF compare_timespec
  <2>9. CASE p = r /\ m = n BY ONLY SMT, <2>2, <2>3, <2>4, <2>9 DEF compare_timespec
  <2> QED BY SMT, <2>2, <2>5, <2>6, <2>7, <2>8, <2>9
<1> QED BY SMT, <1>4, <1>5, <1>6, <1>7 DEF a, b

\* The time arithmetic in milliseconds, for the clock and the delays.
LEMMA TimesCompare ==
    \A a, b \in Timespecs :
        /\ Ms(a) \in Nat /\ Ms(b) \in Nat
        /\ compare_timespec(a, b) = IF Ms(a) > Ms(b) THEN 1 ELSE IF Ms(a) < Ms(b) THEN -1 ELSE 0
<1> SUFFICES ASSUME NEW a \in Timespecs, NEW b \in Timespecs
             PROVE  /\ Ms(a) \in Nat /\ Ms(b) \in Nat
                    /\ compare_timespec(a, b) =
                            IF Ms(a) > Ms(b) THEN 1 ELSE IF Ms(a) < Ms(b) THEN -1 ELSE 0
    OBVIOUS
<1>1. PICK x \in Nat : a = set_timespec_from_ms(x) BY DEF Timespecs
<1>2. PICK y \in Nat : b = set_timespec_from_ms(y) BY DEF Timespecs
<1>3. Ms(a) = x /\ Ms(b) = y BY <1>1, <1>2, TimesAreExact
<1> QED BY <1>1, <1>2, <1>3, TimesAreExact

TimerControls == [handle : TimerHandles, TimeExpired : Timespecs, id : Nat]

\* No timer of the list is due before one that stands before it.
DueInOrder(list) ==
    \A i, j \in 1 .. Len(list) : i < j => Ms(list[i].TimeExpired) <= Ms(list[j].TimeExpired)

\* What is left of a list in order is in order.
LEMMA SublistDue ==
    ASSUME NEW list \in Seq(TimerControls), DueInOrder(list), NEW S
    PROVE  Sublist(list, S) \in Seq(TimerControls) /\ DueInOrder(Sublist(list, S))
<1>1. PICK sub : sub = Sublist(list, S) OBVIOUS
<1>2. sub \in Seq(TimerControls) BY <1>1, SublistPlaces
<1>3. PICK pos : Places(sub, list, Len(list), S, pos) BY <1>1, SublistPlaces
<1>4. ASSUME NEW i \in 1 .. Len(sub), NEW j \in 1 .. Len(sub), i < j
      PROVE  Ms(sub[i].TimeExpired) <= Ms(sub[j].TimeExpired)
  <2>1. pos[i] \in 1 .. Len(list) /\ pos[j] \in 1 .. Len(list) /\ pos[i] < pos[j]
      BY <1>3, <1>4 DEF Places
  <2>2. sub[i] = list[pos[i]] /\ sub[j] = list[pos[j]] BY <1>3 DEF Places
  <2> QED BY <2>1, <2>2 DEF DueInOrder
<1> QED BY <1>1, <1>2, <1>4 DEF DueInOrder

\* A list followed by a later timer is in order.
LEMMA ConcatDue ==
    ASSUME NEW a \in Seq(TimerControls), NEW b \in Seq(TimerControls),
           DueInOrder(a), DueInOrder(b),
           \A t \in Range(a), u \in Range(b) : Ms(t.TimeExpired) <= Ms(u.TimeExpired)
    PROVE  DueInOrder(a \o b)
<1>1. PICK both, m, n : both = a \o b /\ m = Len(a) /\ n = Len(b) OBVIOUS
<1>2. m \in Nat /\ n \in Nat /\ Len(both) = m + n BY <1>1, ConcatProperties, LenProperties
<1>3. \A i \in 1 .. m + n : both[i] = IF i <= m THEN a[i] ELSE b[i - m]
    BY <1>1, ConcatProperties
<1>4. ASSUME NEW i \in 1 .. m + n, NEW j \in 1 .. m + n, i < j
      PROVE  Ms(both[i].TimeExpired) <= Ms(both[j].TimeExpired)
  <2>1. CASE j <= m
    <3>1. i \in 1 .. m /\ j \in 1 .. m BY <1>2, <1>4, <2>1
    <3>2. both[i] = a[i] /\ both[j] = a[j] BY <1>3, <3>1
    <3> QED BY <1>1, <1>4, <3>1, <3>2 DEF DueInOrder
  <2>2. CASE i > m
    <3>1. i - m \in 1 .. n /\ j - m \in 1 .. n /\ i - m < j - m BY <1>2, <1>4, <2>2
    <3>2. both[i] = b[i - m] /\ both[j] = b[j - m] BY <1>2, <1>3, <1>4, <2>2
    <3> QED BY <1>1, <3>1, <3>2 DEF DueInOrder
  <2>3. CASE i <= m /\ j > m
    <3>1. i \in 1 .. m /\ j - m \in 1 .. n BY <1>2, <2>3
    <3>2. both[i] = a[i] /\ both[j] = b[j - m] BY <1>2, <1>3, <2>3
    <3>3. a[i] \in Range(a) /\ b[j - m] \in Range(b) BY <1>1, <3>1, RangeIndex
    <3> QED BY <3>2, <3>3
  <2> QED BY <1>2, <2>1, <2>2, <2>3
<1> QED BY <1>1, <1>2, <1>4 DEF DueInOrder

\* A timer is put where it is due.
LEMMA SortedInKeeps ==
    ASSUME NEW list \in Seq(TimerControls), NEW timer \in TimerControls
    PROVE  /\ SortedIn(timer, list) \in Seq(TimerControls)
           /\ Range(SortedIn(timer, list)) = Range(list) \cup {timer}
           /\ IsInjective(list) /\ timer \notin Range(list) => IsInjective(SortedIn(timer, list))
           /\ DueInOrder(list) => DueInOrder(SortedIn(timer, list))
<1>1. PICK before : before = {t \in Range(list) :
                                  compare_timespec(timer.TimeExpired, t.TimeExpired) # -1}
    OBVIOUS
<1>2. PICK low, high, front : /\ low = Sublist(list, before) /\ front = Append(low, timer)
                              /\ high = Sublist(list, Range(list) \ before)
    OBVIOUS
<1>3. SortedIn(timer, list) = front \o high BY <1>1, <1>2 DEF SortedIn
<1>4. /\ low \in Seq(TimerControls) /\ Range(low) = before
      /\ IsInjective(list) => IsInjective(low)
    BY <1>1, <1>2, SublistKeeps
<1>5. /\ high \in Seq(TimerControls) /\ Range(high) = Range(list) \ before
      /\ IsInjective(list) => IsInjective(high)
    BY <1>2, SublistKeeps
<1>6. /\ front \in Seq(TimerControls) /\ Range(front) = before \cup {timer}
      /\ IsInjective(front) <=> IsInjective(low) /\ timer \notin before
    BY <1>2, <1>4, InjectiveAppend, AppendProperties
<1>7. front \o high \in Seq(TimerControls) BY <1>5, <1>6, ConcatProperties
<1>8. Range(front \o high) = Range(list) \cup {timer}
  <2>1. Range(front \o high) = Range(front) \cup Range(high) BY <1>5, <1>6, RangeConcatenation
  <2> QED BY <1>1, <1>5, <1>6, <2>1
<1>9. ASSUME IsInjective(list), timer \notin Range(list) PROVE IsInjective(front \o high)
  <2>1. IsInjective(front) /\ IsInjective(high) BY <1>1, <1>4, <1>5, <1>6, <1>9
  <2>2. Range(front) \cap Range(high) = {} BY <1>5, <1>6, <1>9
  <2> QED BY <1>5, <1>6, <2>1, <2>2, InjectiveConcat
<1>10. ASSUME DueInOrder(list) PROVE DueInOrder(front \o high)
  <2>1. \A t \in Range(list) : t \in TimerControls BY RangeIndex
  <2>2. \A t \in Range(list) :
           /\ timer.TimeExpired \in Timespecs /\ t.TimeExpired \in Timespecs
           /\ t \in before <=> compare_timespec(timer.TimeExpired, t.TimeExpired) # -1
      BY <1>1, <2>1 DEF TimerControls
  <2>3. \A t \in Range(list) :
           /\ Ms(timer.TimeExpired) \in Nat /\ Ms(t.TimeExpired) \in Nat
           /\ t \in before => Ms(t.TimeExpired) <= Ms(timer.TimeExpired)
           /\ t \notin before => Ms(timer.TimeExpired) < Ms(t.TimeExpired)
    <3> TAKE t \in Range(list)
    <3>1. PICK a, b : a = timer.TimeExpired /\ b = t.TimeExpired OBVIOUS
    <3>2. /\ Ms(a) \in Nat /\ Ms(b) \in Nat
          /\ compare_timespec(a, b) =
                IF Ms(a) > Ms(b) THEN 1 ELSE IF Ms(a) < Ms(b) THEN -1 ELSE 0
        BY <2>2, <3>1, TimesCompare
    <3>3. t \in before <=> compare_timespec(a, b) # -1 BY <2>2, <3>1
    <3> QED BY ONLY <3>1, <3>2, <3>3
  <2>4. DueInOrder(low) /\ DueInOrder(high) BY <1>2, <1>10, SublistDue
  <2>5. PICK one : one = <<timer>> OBVIOUS
  <2>6. one \in Seq(TimerControls) /\ Len(one) = 1 /\ Range(one) = {timer}
    <3>1. one \in Seq(TimerControls) /\ Len(one) = 1 /\ one[1] = timer BY <2>5
    <3> QED BY <3>1, RangeEquality
  <2>7. front = low \o one BY <1>2, <1>4, <2>5, AppendIsConcat
  <2>8. DueInOrder(one) BY <2>6 DEF DueInOrder
  <2>9. \A t \in Range(low), u \in Range(one) : Ms(t.TimeExpired) <= Ms(u.TimeExpired)
      BY <1>1, <1>4, <2>3, <2>6
  <2>10. DueInOrder(front) BY <1>4, <2>4, <2>6, <2>7, <2>8, <2>9, ConcatDue
  <2>11. \A t \in Range(front), u \in Range(high) : Ms(t.TimeExpired) <= Ms(u.TimeExpired)
    <3> TAKE t \in Range(front), u \in Range(high)
    <3>1. u \in Range(list) /\ u \notin before BY <1>5
    <3>2. Ms(timer.TimeExpired) < Ms(u.TimeExpired) /\ Ms(timer.TimeExpired) \in Nat
          /\ Ms(u.TimeExpired) \in Nat
        BY <2>3, <3>1
    <3>3. CASE t = timer BY <3>2, <3>3
    <3>4. CASE t \in before
      <4>1. t \in Range(list) BY <1>1, <3>4
      <4>2. Ms(t.TimeExpired) <= Ms(timer.TimeExpired) /\ Ms(t.TimeExpired) \in Nat
          BY <2>3, <3>4, <4>1
      <4> QED BY <3>2, <4>2
    <3> QED BY <1>6, <3>3, <3>4
  <2> QED BY <1>5, <1>6, <2>4, <2>10, <2>11, ConcatDue
<1> QED BY <1>3, <1>7, <1>8, <1>9, <1>10

\* The sort, timer by timer.
LEMMA SortedSteps ==
    ASSUME NEW timers \in Seq(TimerControls)
    PROVE  \E run \in [0 .. Len(timers) -> Seq(TimerControls)] :
              /\ run[0] = <<>> /\ Sorted(timers) = run[Len(timers)]
              /\ \A k \in 1 .. Len(timers) : run[k] = SortedIn(timers[k], run[k - 1])
<1> DEFINE T == Seq(TimerControls)
           n == Len(timers)
           body(f) == [k \in 0 .. n |-> IF k = 0 THEN <<>> ELSE SortedIn(timers[k], f[k - 1])]
           step == [p \in (1 .. n) \X T |-> SortedIn(timers[p[1]], p[2])]
<1>1. n \in Nat /\ \A k \in 1 .. n : timers[k] \in TimerControls BY ElementOfSeq
<1>2. <<>> \in T BY EmptySeq
<1>3. \A k \in 1 .. n : \A list \in T : SortedIn(timers[k], list) \in T BY <1>1, SortedInKeeps
<1>4. step \in [(1 .. n) \X T -> T] BY <1>3
<1>5. PICK run \in [0 .. n -> T] : Follows(run, n, <<>>, step)
  <2> HIDE DEF step, T, n
  <2> QED BY <1>1, <1>2, <1>4, Recursion
<1>6. run[0] = <<>> BY <1>5 DEF Follows
<1>7. \A k \in 1 .. n : run[k] = SortedIn(timers[k], run[k - 1])
  <2> TAKE k \in 1 .. n
  <2>1. k - 1 \in 0 .. n BY <1>1
  <2>2. run[k - 1] \in T BY <2>1
  <2>3. <<k, run[k - 1]>> \in (1 .. n) \X T BY <2>2
  <2>4. run[k] = step[<<k, run[k - 1]>>] BY <1>5 DEF Follows
  <2> QED BY <2>3, <2>4
<1>8. run = body(run)
  <2>1. \A k \in 0 .. n : k # 0 => k \in 1 .. n BY <1>1
  <2>2. \A k \in 0 .. n : run[k] = IF k = 0 THEN <<>> ELSE SortedIn(timers[k], run[k - 1])
      BY <1>6, <1>7, <2>1
  <2> QED BY <2>2
<1> DEFINE sorted == CHOOSE f : f = body(f)
<1>9. sorted = body(sorted) BY <1>8
<1>10. Sorted(timers) = sorted[n] BY DEF Sorted
<1> HIDE DEF sorted
<1>11. \A k \in 0 .. n : sorted[k] = IF k = 0 THEN <<>> ELSE SortedIn(timers[k], sorted[k - 1])
  <2>1. \A k \in 0 .. n : sorted[k] = body(sorted)[k] BY <1>9
  <2> QED BY <2>1
<1>12. sorted[0] = run[0] BY <1>1, <1>6, <1>11
<1>13. \A k \in 1 .. n : sorted[k - 1] = run[k - 1] => sorted[k] = run[k]
  <2>1. \A k \in 1 .. n : k # 0 /\ k \in 0 .. n BY <1>1
  <2> QED BY <1>7, <1>11, <2>1
<1>14. sorted[n] = run[n]
  <2> HIDE DEF n
  <2> QED BY <1>1, <1>12, <1>13, SameRun
<1> QED BY <1>6, <1>7, <1>10, <1>14

\* The sort keeps the timers and puts them in the order in which they are due.
LEMMA SortedSorts ==
    ASSUME NEW timers \in Seq(TimerControls), IsInjective(timers)
    PROVE  /\ Sorted(timers) \in Seq(TimerControls) /\ Range(Sorted(timers)) = Range(timers)
           /\ IsInjective(Sorted(timers)) /\ DueInOrder(Sorted(timers))
<1>1. PICK n : n = Len(timers) OBVIOUS
<1>2. PICK run \in [0 .. n -> Seq(TimerControls)] :
          /\ run[0] = <<>> /\ Sorted(timers) = run[n]
          /\ \A k \in 1 .. n : run[k] = SortedIn(timers[k], run[k - 1])
    BY <1>1, SortedSteps
<1>3. n \in Nat /\ \A k \in 1 .. n : timers[k] \in TimerControls BY <1>1, ElementOfSeq
<1>4. \A i, j \in 1 .. n : timers[i] = timers[j] => i = j BY <1>1, InjectiveIndex
<1> DEFINE P == {k \in 0 .. n : /\ IsInjective(run[k]) /\ DueInOrder(run[k])
                                /\ Range(run[k]) = {timers[i] : i \in 1 .. k}}
<1>5. 0 \in P
  <2>1. IsInjective(<<>>) /\ Range(<<>>) = {} BY DEF IsInjective, Range
  <2>2. DueInOrder(<<>>) BY DEF DueInOrder
  <2>3. {timers[i] : i \in 1 .. 0} = {} OBVIOUS
  <2> QED BY <1>2, <1>3, <2>1, <2>2, <2>3
<1>6. ASSUME NEW k \in 0 .. n - 1, k \in P PROVE k + 1 \in P
  <2>1. k + 1 \in 1 .. n /\ k + 1 \in 0 .. n /\ k \in 0 .. n /\ (k + 1) - 1 = k BY <1>3
  <2>2. PICK list, timer : list = run[k] /\ timer = timers[k + 1] OBVIOUS
  <2>3. list \in Seq(TimerControls) /\ timer \in TimerControls BY <1>3, <2>1, <2>2
  <2>4. run[k + 1] = SortedIn(timer, list) BY <1>2, <2>1, <2>2
  <2>5. IsInjective(list) /\ DueInOrder(list) /\ Range(list) = {timers[i] : i \in 1 .. k}
      BY <1>6, <2>2
  <2>6. timer \notin Range(list)
    <3>1. ASSUME NEW i \in 1 .. k, timers[i] = timer PROVE FALSE
      <4>1. i \in 1 .. n /\ i # k + 1 BY <1>3, <2>1
      <4> QED BY <1>4, <2>1, <2>2, <3>1, <4>1
    <3> QED BY <2>5, <3>1
  <2>7. Range(list) \cup {timer} = {timers[i] : i \in 1 .. k + 1}
    <3>1. \A i : i \in 1 .. k + 1 <=> i \in 1 .. k \/ i = k + 1 OBVIOUS
    <3> QED BY <2>2, <2>5, <3>1
  <2>8. IsInjective(run[k + 1]) /\ DueInOrder(run[k + 1])
        /\ Range(run[k + 1]) = Range(list) \cup {timer}
      BY <2>3, <2>4, <2>5, <2>6, SortedInKeeps
  <2> QED BY <2>1, <2>7, <2>8
<1>7. n \in P
  <2> HIDE DEF P
  <2>1. n \in Nat BY <1>3
  <2>2. \A k \in 0 .. n : k \in P BY ONLY <1>5, <1>6, <2>1, UpTo
  <2> QED BY <2>1, <2>2
<1>8. Range(timers) = {timers[i] : i \in 1 .. n} BY <1>1, RangeEquality
<1>9. run[n] \in Seq(TimerControls) BY <1>3
<1> QED BY <1>2, <1>7, <1>8, <1>9

\* What the thread relies on.
TimersTyped ==
    /\ ticks \in Nat /\ ExpireTimersSem \in Nat /\ fired \in Seq(Nat)
    /\ expirer \in {"waiting", "woken", "expiring"}
    /\ ActiveTimers \in Seq(TimerControls) /\ handles \in Seq(TimerHandles)
    /\ Timeout = <<>> \/ \E due \in Timespecs : Timeout = <<due>>
    /\ \E read \in 0 .. ticks : Now = now_timespec(read)

\* A timer is in the list once, under the number it was queued with.
TimersApart ==
    /\ IsInjective(ActiveTimers)
    /\ \A t \in Range(ActiveTimers) : t.id <= Len(handles)
    /\ \A t, u \in Range(ActiveTimers) : t.id = u.id => t = u

TimersInv ==
    /\ TimersTyped /\ TimersApart /\ TimersWatched
    /\ expirer = "expiring" => DueInOrder(ActiveTimers)

\* The clock and the delays are times.
LEMMA ClockIsTimespec ==
    \A n \in Nat : now_timespec(n) \in Timespecs /\ Ms(now_timespec(n)) = n * TimerTick
<1> SUFFICES ASSUME NEW n \in Nat
             PROVE  now_timespec(n) \in Timespecs /\ Ms(now_timespec(n)) = n * TimerTick
    OBVIOUS
<1>1. n * TimerTick \in Nat BY TimerAssumption
<1>2. now_timespec(n) = set_timespec_from_ms(n * TimerTick) BY DEF now_timespec
<1>3. PICK ms : ms = n * TimerTick OBVIOUS
<1> QED BY <1>1, <1>2, <1>3, TimesAreExact DEF Timespecs

LEMMA DelayIsTimespec ==
    \A n \in Nat, ms \in TimerDelays : set_delay_from_now(n, ms) \in Timespecs
<1> SUFFICES ASSUME NEW n \in Nat, NEW ms \in TimerDelays
             PROVE  set_delay_from_now(n, ms) \in Timespecs
    OBVIOUS
<1>1. PICK x : x = n * TimerTick OBVIOUS
<1>2. x \in Nat /\ ms \in Nat /\ x + ms \in Nat BY <1>1, TimerAssumption
<1>3. set_delay_from_now(n, ms) = add_timespec(set_timespec_from_ms(x), set_timespec_from_ms(ms))
    BY <1>1 DEF set_delay_from_now, now_timespec
<1>4. set_delay_from_now(n, ms) = set_timespec_from_ms(x + ms) BY <1>2, <1>3, TimesAreExact
<1> QED BY <1>2, <1>4 DEF Timespecs

LEMMA TimersStart == TimersInit => TimersInv
<1> SUFFICES ASSUME TimersInit PROVE TimersInv OBVIOUS
<1> USE DEF TimersInit
<1>1. <<>> \in Seq(TimerControls) /\ <<>> \in Seq(TimerHandles) /\ <<>> \in Seq(Nat) BY EmptySeq
<1>2. Now = now_timespec(0)
  <2>1. 0 * TimerTick = 0 BY TimerAssumption
  <2> QED BY <2>1 DEF now_timespec
<1>3. TimersTyped BY <1>1, <1>2 DEF TimersTyped
<1>4. Range(<<>>) = {} /\ IsInjective(<<>>) BY DEF Range, IsInjective
<1> QED BY <1>3, <1>4 DEF TimersInv, TimersApart, TimersWatched

LEMMA QueueKeeps == TimersInv /\ QueueTimerCallback => TimersInv'
<1> SUFFICES ASSUME TimersInv, QueueTimerCallback PROVE TimersInv' OBVIOUS
<1> USE DEF TimersInv
<1>1. PICK read \in {ticks - 1, ticks} \cap Nat, ms \in TimerDelays, h \in TimerHandles :
          QueueTimer(read, ms, h) /\ handles' = Append(handles, h)
    BY DEF QueueTimerCallback
<1>2. PICK t : t = [handle |-> h, TimeExpired |-> set_delay_from_now(read, ms),
                    id |-> Len(handles) + 1]
    OBVIOUS
<1>3. Len(handles) \in Nat /\ ActiveTimers \in Seq(TimerControls) /\ handles \in Seq(TimerHandles)
    BY LenProperties DEF TimersTyped
<1>4. t \in TimerControls /\ t.id = Len(handles) + 1 BY <1>2, <1>3, DelayIsTimespec DEF TimerControls
<1>5. ActiveTimers' = <<t>> \o ActiveTimers /\ ExpireTimersSem' = ExpireTimersSem + 1
    BY <1>1, <1>2 DEF QueueTimer
<1>6. ActiveTimers' \in Seq(TimerControls) /\ Range(ActiveTimers') = {t} \cup Range(ActiveTimers)
    BY <1>3, <1>4, <1>5, RangeOfCons
<1>7. handles' \in Seq(TimerHandles) /\ Len(handles') = Len(handles) + 1
    BY <1>1, <1>3, AppendProperties
<1>8. /\ expirer # "expiring" /\ expirer' = expirer /\ ticks' = ticks /\ Timeout' = Timeout
      /\ Now' = Now /\ fired' = fired
    BY DEF QueueTimerCallback, TimerLockFree
<1>9. TimersTyped' BY <1>5, <1>6, <1>7, <1>8 DEF TimersTyped
<1>10. \A u \in Range(ActiveTimers) : u.id \in Nat /\ u.id <= Len(handles)
  <2>1. \A u \in Range(ActiveTimers) : u \in TimerControls BY <1>3, RangeIndex
  <2> QED BY <2>1 DEF TimerControls, TimersApart
<1>11. TimersApart'
  <2>1. t \notin Range(ActiveTimers) BY <1>3, <1>4, <1>10
  <2>2. PICK one : one = <<t>> OBVIOUS
  <2>3. one \in Seq(TimerControls) /\ Len(one) = 1 /\ one[1] = t BY <1>4, <2>2
  <2>4. IsInjective(one) BY <2>3, InjectiveIndex
  <2>5. Range(one) = {t} BY <2>3, RangeEquality
  <2>6. IsInjective(one \o ActiveTimers)
      BY <1>3, <2>1, <2>3, <2>4, <2>5, InjectiveConcat DEF TimersApart
  <2>7. \A u \in Range(ActiveTimers') : u.id <= Len(handles') BY <1>3, <1>4, <1>6, <1>7, <1>10
  <2>8. ASSUME NEW u \in Range(ActiveTimers'), NEW v \in Range(ActiveTimers'), u.id = v.id
        PROVE  u = v
    <3>1. u = t \/ u \in Range(ActiveTimers) BY <1>6
    <3>2. v = t \/ v \in Range(ActiveTimers) BY <1>6
    <3> QED BY <1>3, <1>4, <1>10, <2>8, <3>1, <3>2 DEF TimersApart
  <2> QED BY <1>5, <2>2, <2>6, <2>7, <2>8 DEF TimersApart
<1>12. TimersWatched'
  <2>1. ExpireTimersSem' # 0 BY <1>5 DEF TimersTyped
  <2> QED BY <2>1 DEF TimersWatched
<1> QED BY <1>8, <1>9, <1>11, <1>12

LEMMA CancelKeeps == TimersInv /\ CancelTimerCallback => TimersInv'
<1> SUFFICES ASSUME TimersInv, CancelTimerCallback PROVE TimersInv' OBVIOUS
<1> USE DEF TimersInv
<1>1. PICK K : ActiveTimers' = Sublist(ActiveTimers, K) BY DEF CancelTimerCallback
<1>2. /\ expirer # "expiring" /\ expirer' = expirer /\ ticks' = ticks /\ Timeout' = Timeout
      /\ Now' = Now /\ fired' = fired /\ handles' = handles /\ ExpireTimersSem' = ExpireTimersSem
    BY DEF CancelTimerCallback, TimerLockFree
<1>3. ActiveTimers \in Seq(TimerControls) BY DEF TimersTyped
<1>4. /\ ActiveTimers' \in Seq(TimerControls) /\ Range(ActiveTimers') \subseteq Range(ActiveTimers)
      /\ IsInjective(ActiveTimers')
    BY <1>1, <1>3, SublistKeeps DEF TimersApart
<1>5. TimersTyped' BY <1>2, <1>4 DEF TimersTyped
<1>6. TimersApart' BY <1>2, <1>4 DEF TimersApart
<1>7. TimersWatched' BY <1>2, <1>4 DEF TimersWatched
<1> QED BY <1>2, <1>5, <1>6, <1>7

LEMMA ExpirerKeeps == TimersInv /\ ExpirerStep => TimersInv'
<1> SUFFICES ASSUME TimersInv, ExpirerStep PROVE TimersInv' OBVIOUS
<1> USE DEF TimersInv
<1>1. ActiveTimers \in Seq(TimerControls) BY DEF TimersTyped
<1>2. \A t \in Range(ActiveTimers) : t \in TimerControls /\ t.TimeExpired \in Timespecs
  <2>1. \A t \in Range(ActiveTimers) : t \in TimerControls BY <1>1, RangeIndex
  <2> QED BY <2>1 DEF TimerControls
<1>3. CASE WakeExpirer
    BY <1>3 DEF WakeExpirer, TimersTyped, TimersApart, TimersWatched
<1>4. CASE LockTimers
  <2> USE DEF LockTimers
  <2>1. CASE ActiveTimers = <<>>
    <3>1. Range(ActiveTimers') = {} BY <1>4, <2>1 DEF Range
    <3> QED BY <1>4, <2>1, <3>1 DEF TimersTyped, TimersApart, TimersWatched
  <2>2. CASE ActiveTimers # <<>>
    <3>1. /\ ActiveTimers' = Sorted(ActiveTimers) /\ expirer' = "expiring"
          /\ Now' = now_timespec(ticks) /\ Timeout' = <<>> /\ ticks' = ticks /\ fired' = fired
          /\ handles' = handles /\ ExpireTimersSem' = ExpireTimersSem
        BY <1>4, <2>2
    <3>2. /\ ActiveTimers' \in Seq(TimerControls) /\ Range(ActiveTimers') = Range(ActiveTimers)
          /\ IsInjective(ActiveTimers') /\ DueInOrder(ActiveTimers')
        BY <1>1, <3>1, SortedSorts DEF TimersApart
    <3>3. ticks \in 0 .. ticks BY DEF TimersTyped
    <3>4. TimersTyped' BY <3>1, <3>2, <3>3 DEF TimersTyped
    <3>5. TimersApart' BY <3>1, <3>2 DEF TimersApart
    <3> QED BY <3>1, <3>2, <3>4, <3>5 DEF TimersWatched
  <2> QED BY <2>1, <2>2
<1>5. CASE FireTimer
  <2> USE DEF FireTimer
  <2>1. PICK rest : rest = Tail(ActiveTimers) OBVIOUS
  <2>2. rest \in Seq(TimerControls) /\ Len(rest) = Len(ActiveTimers) - 1
        /\ \A i \in 1 .. Len(rest) : rest[i] = ActiveTimers[i + 1]
      BY <1>1, <1>5, <2>1, HeadTailProperties
  <2>3. IsInjective(rest) /\ Range(ActiveTimers) = {Head(ActiveTimers)} \cup Range(rest)
      BY <1>1, <1>5, <2>1, InjectiveTail DEF TimersApart
  <2>4. Len(ActiveTimers) \in Nat /\ Len(rest) \in Nat BY <1>1, <2>2, LenProperties
  <2>5. DueInOrder(rest)
    <3>1. ASSUME NEW i \in 1 .. Len(rest), NEW j \in 1 .. Len(rest), i < j
          PROVE  Ms(rest[i].TimeExpired) <= Ms(rest[j].TimeExpired)
      <4>1. i + 1 \in 1 .. Len(ActiveTimers) /\ j + 1 \in 1 .. Len(ActiveTimers) /\ i + 1 < j + 1
          BY <2>2, <2>4, <3>1
      <4> QED BY <1>5, <2>2, <4>1 DEF DueInOrder
    <3> QED BY <3>1 DEF DueInOrder
  <2>6. Head(ActiveTimers).id \in Nat BY <1>2, <2>3 DEF TimerControls
  <2>7. TimersTyped'
    <3>1. fired' \in Seq(Nat) BY <1>5, <2>6, AppendProperties DEF TimersTyped
    <3> QED BY <1>5, <2>1, <2>2, <3>1 DEF TimersTyped
  <2> QED BY <1>5, <2>1, <2>3, <2>5, <2>7 DEF TimersApart, TimersWatched
<1>6. CASE RestExpirer
  <2> USE DEF RestExpirer
  <2>1. CASE ActiveTimers = <<>>
    <3>1. Range(ActiveTimers') = {} BY <1>6, <2>1 DEF Range
    <3> QED BY <1>6, <2>1, <3>1 DEF TimersTyped, TimersApart, TimersWatched
  <2>2. CASE ActiveTimers # <<>>
    <3>1. PICK first : first = ActiveTimers[1].TimeExpired OBVIOUS
    <3>2. 1 \in 1 .. Len(ActiveTimers) BY <1>1, <2>2, EmptySeq
    <3>3. Timeout' = <<first>> /\ first \in Timespecs
      <4>1. Head(ActiveTimers) = ActiveTimers[1] BY <1>1, <2>2
      <4> QED BY <1>1, <1>2, <1>6, <2>2, <3>1, <3>2, <4>1, RangeIndex
    <3>4. ASSUME NEW t \in Range(ActiveTimers) PROVE Ms(first) <= Ms(t.TimeExpired)
      <4>1. PICK i \in 1 .. Len(ActiveTimers) : ActiveTimers[i] = t BY <1>1, RangeIndex
      <4>2. Ms(t.TimeExpired) \in Nat BY <1>2, TimesCompare
      <4>3. CASE i = 1 BY <3>1, <4>1, <4>2, <4>3
      <4>4. CASE i > 1 BY <1>6, <3>1, <3>2, <4>1, <4>4 DEF DueInOrder
      <4> QED BY <4>3, <4>4
    <3>5. TimersTyped' BY <1>6, <3>3 DEF TimersTyped
    <3>6. TimersWatched'
      <4>1. Timeout' # <<>> /\ Head(Timeout') = first BY <3>3
      <4> QED BY <1>6, <3>4, <4>1 DEF TimersWatched
    <3> QED BY <1>6, <3>5, <3>6 DEF TimersApart
  <2> QED BY <2>1, <2>2
<1> QED BY <1>3, <1>4, <1>5, <1>6 DEF ExpirerStep

LEMMA TimersStep == TimersInv /\ [TimersNext]_timersVars => TimersInv'
<1> SUFFICES ASSUME TimersInv, [TimersNext]_timersVars PROVE TimersInv' OBVIOUS
<1>1. CASE Tick
  <2>1. \A read \in 0 .. ticks : read \in 0 .. ticks' BY <1>1 DEF Tick, TimersInv, TimersTyped
  <2> QED BY <1>1, <2>1 DEF Tick, TimersInv, TimersTyped, TimersApart, TimersWatched
<1>2. CASE UNCHANGED timersVars
    BY <1>2 DEF timersVars, TimersInv, TimersTyped, TimersApart, TimersWatched
<1> QED BY <1>1, <1>2, QueueKeeps, CancelKeeps, ExpirerKeeps DEF TimersNext

LEMMA TimersInvariant == Spec => []TimersInv
<1>1. Init => TimersInv BY TimersStart DEF Init
<1>2. [Next]_vars => [TimersNext]_timersVars
    BY DEF Next, vars, TimersRun, WorkQueueRuns, LogRuns, EventsRun, StoreRuns, GpioRuns
<1>3. TimersInv /\ [Next]_vars => TimersInv' BY <1>2, TimersStep
<1> QED BY <1>1, <1>3, PTL DEF Spec

\* QueueTimerCallback, ExpireTimersThread: no timer is forgotten.  Whatever was
\* queued, cancelled or called since, the waiting thread has been posted, or its
\* wait ends before any timer is due.
THEOREM TimersAreWatched == Spec => []TimersWatched
<1>1. TimersInv => TimersWatched BY DEF TimersInv
<1> QED BY <1>1, TimersInvariant, PTL

\* The numbers of the timers in the list.
Queued == {t.id : t \in Range(ActiveTimers)}

LEMMA AccountedStep ==
    TimersInv /\ TimersAccounted /\ [TimersNext]_timersVars => TimersAccounted'
<1> SUFFICES ASSUME TimersInv, TimersAccounted, [TimersNext]_timersVars PROVE TimersAccounted'
    OBVIOUS
<1>1. /\ ActiveTimers \in Seq(TimerControls) /\ handles \in Seq(TimerHandles) /\ fired \in Seq(Nat)
      /\ Len(handles) \in Nat
    BY LenProperties DEF TimersInv, TimersTyped
<1>2. \A t \in Range(ActiveTimers) : t.id \in Nat /\ t.id <= Len(handles)
  <2>1. \A t \in Range(ActiveTimers) : t \in TimerControls BY <1>1, RangeIndex
  <2> QED BY <2>1 DEF TimerControls, TimersInv, TimersApart
<1>3. \A t, u \in Range(ActiveTimers) : t.id = u.id => t = u BY DEF TimersInv, TimersApart
<1>4. DOMAIN handles = 1 .. Len(handles) BY <1>1
<1>5. /\ Queued \cup Range(fired) \cup cancelled = 1 .. Len(handles)
      /\ Queued \cap Range(fired) = {} /\ Queued \cap cancelled = {}
      /\ Range(fired) \cap cancelled = {} /\ IsInjective(fired)
    BY <1>4 DEF TimersAccounted, Queued
<1>6. ASSUME Queued' = Queued, fired' = fired, cancelled' = cancelled, handles' = handles
      PROVE  TimersAccounted'
    BY <1>4, <1>5, <1>6 DEF TimersAccounted, Queued
<1>7. ASSUME Range(ActiveTimers') = Range(ActiveTimers) PROVE Queued' = Queued
    BY <1>7 DEF Queued
<1>8. CASE QueueTimerCallback
  <2>1. PICK read \in {ticks - 1, ticks} \cap Nat, ms \in TimerDelays, h \in TimerHandles :
            QueueTimer(read, ms, h) /\ handles' = Append(handles, h)
      BY <1>8 DEF QueueTimerCallback
  <2>2. PICK t : t = [handle |-> h, TimeExpired |-> set_delay_from_now(read, ms),
                      id |-> Len(handles) + 1]
      OBVIOUS
  <2>3. t \in TimerControls /\ t.id = Len(handles) + 1
    <3>1. read \in Nat BY <2>1
    <3> QED BY <1>1, <2>2, <3>1, DelayIsTimespec DEF TimerControls
  <2>4. ActiveTimers' = <<t>> \o ActiveTimers BY <2>1, <2>2 DEF QueueTimer
  <2>5. Range(ActiveTimers') = {t} \cup Range(ActiveTimers) BY <1>1, <2>3, <2>4, RangeOfCons
  <2>6. Queued' = Queued \cup {Len(handles) + 1} BY <2>3, <2>5 DEF Queued
  <2>7. DOMAIN handles' = 1 .. Len(handles) + 1 BY <1>1, <2>1, AppendProperties
  <2>8. fired' = fired /\ cancelled' = cancelled BY <1>8 DEF QueueTimerCallback
  <2>9. Len(handles) + 1 \notin 1 .. Len(handles)
        /\ 1 .. Len(handles) + 1 = (1 .. Len(handles)) \cup {Len(handles) + 1}
      BY <1>1
  <2> QED BY <1>5, <2>6, <2>7, <2>8, <2>9 DEF TimersAccounted, Queued
<1>9. CASE CancelTimerCallback
  <2>1. PICK id \in DOMAIN handles :
            /\ ActiveTimers' = Sublist(ActiveTimers, Range(ActiveTimers) \ At(handles[id]))
            /\ cancelled' = cancelled \cup {t.id : t \in At(handles[id])}
      BY <1>9 DEF CancelTimerCallback
  <2>2. PICK gone : gone = At(handles[id]) OBVIOUS
  <2>3. gone \subseteq Range(ActiveTimers) BY <2>2 DEF At
  <2>4. PICK K : K = Range(ActiveTimers) \ gone OBVIOUS
  <2>5. ActiveTimers' = Sublist(ActiveTimers, K) BY <2>1, <2>2, <2>4
  <2>6. Range(ActiveTimers') = Range(ActiveTimers) \cap K BY <1>1, <2>5, SublistKeeps
  <2>7. Range(ActiveTimers') = Range(ActiveTimers) \ gone BY <2>4, <2>6
  <2>8. PICK ids : ids = {t.id : t \in gone} OBVIOUS
  <2>9. Queued' = Queued \ ids /\ ids \subseteq Queued BY <1>3, <2>3, <2>7, <2>8 DEF Queued
  <2>10. cancelled' = cancelled \cup ids /\ fired' = fired /\ handles' = handles
      BY <1>9, <2>1, <2>2, <2>8 DEF CancelTimerCallback
  <2> QED BY <1>4, <1>5, <2>9, <2>10 DEF TimersAccounted, Queued
<1>10. CASE LockTimers
  <2>1. ActiveTimers' = IF ActiveTimers = <<>> THEN ActiveTimers ELSE Sorted(ActiveTimers)
      BY <1>10 DEF LockTimers
  <2>2. Range(Sorted(ActiveTimers)) = Range(ActiveTimers)
      BY <1>1, SortedSorts DEF TimersInv, TimersApart
  <2>3. Range(ActiveTimers') = Range(ActiveTimers) BY <2>1, <2>2
  <2> QED BY <1>6, <1>7, <1>10, <2>3 DEF LockTimers
<1>11. CASE FireTimer
  <2>1. PICK head : head = Head(ActiveTimers) OBVIOUS
  <2>2. /\ ActiveTimers # <<>> /\ ActiveTimers' = Tail(ActiveTimers)
        /\ fired' = Append(fired, head.id) /\ cancelled' = cancelled /\ handles' = handles
      BY <1>11, <2>1 DEF FireTimer
  <2>3. Range(ActiveTimers) = {head} \cup Range(ActiveTimers') /\ head \notin Range(ActiveTimers')
      BY <1>1, <2>1, <2>2, InjectiveTail DEF TimersInv, TimersApart
  <2>4. Queued = {head.id} \cup Queued' /\ head.id \notin Queued' BY <1>3, <2>3 DEF Queued
  <2>5. head.id \in Nat /\ head.id \notin Range(fired) BY <1>2, <1>5, <2>3, <2>4
  <2>6. Range(fired') = Range(fired) \cup {head.id} /\ IsInjective(fired')
      BY <1>1, <1>5, <2>2, <2>5, InjectiveAppend
  <2> QED BY <1>4, <1>5, <2>2, <2>4, <2>6 DEF TimersAccounted, Queued
<1>12. CASE Tick \/ WakeExpirer \/ RestExpirer \/ UNCHANGED timersVars
  <2>1. /\ ActiveTimers' = ActiveTimers /\ fired' = fired /\ cancelled' = cancelled
        /\ handles' = handles
      BY <1>12 DEF Tick, WakeExpirer, RestExpirer, timersVars
  <2> QED BY <1>6, <1>7, <2>1
<1> QED BY <1>8, <1>9, <1>10, <1>11, <1>12 DEF TimersNext, ExpirerStep

\* QueueTimerCallback, CancelTimerCallback, ExpireTimersThread: a timer that was
\* queued is in the list, was called or was cancelled, only one of these, and it is
\* not called twice: whatever the thread sorts, takes and calls in between.
THEOREM NoTimerIsLost == Spec => []TimersAccounted
<1>1. Init => TimersAccounted
  <2> SUFFICES ASSUME TimersInit PROVE TimersAccounted BY DEF Init
  <2>1. Range(<<>>) = {} /\ IsInjective(<<>>) /\ DOMAIN <<>> = {} BY DEF Range, IsInjective
  <2> QED BY <2>1 DEF TimersInit, TimersAccounted
<1>2. [Next]_vars => [TimersNext]_timersVars
    BY DEF Next, vars, TimersRun, WorkQueueRuns, LogRuns, EventsRun, StoreRuns, GpioRuns
<1>3. TimersInv /\ TimersAccounted /\ [Next]_vars => TimersAccounted' BY <1>2, AccountedStep
<1> QED BY <1>1, <1>3, TimersInvariant, PTL DEF Spec

\* ExpireTimersThread: a timer is called when its time has come, and none that
\* is due earlier is in the list then, whenever timers are queued and cancelled
\* and however late the thread runs.
THEOREM TimersFireInOrder == Spec => EarliestFirst
<1> DEFINE InTime == \A t \in Range(ActiveTimers) : fired' = Append(fired, t.id) =>
                        /\ Ms(t.TimeExpired) <= ticks * TimerTick
                        /\ \A u \in Range(ActiveTimers) : Ms(t.TimeExpired) <= Ms(u.TimeExpired)
<1>1. TimersInv /\ [TimersNext]_timersVars => [InTime]_timersVars
  <2> SUFFICES ASSUME TimersInv, TimersNext, NEW t \in Range(ActiveTimers),
                      fired' = Append(fired, t.id)
               PROVE  /\ Ms(t.TimeExpired) <= ticks * TimerTick
                      /\ \A u \in Range(ActiveTimers) : Ms(t.TimeExpired) <= Ms(u.TimeExpired)
      OBVIOUS
  <2> USE DEF TimersInv
  <2>1. ActiveTimers \in Seq(TimerControls) /\ fired \in Seq(Nat) BY DEF TimersTyped
  <2>2. \A u \in Range(ActiveTimers) :
           u.id \in Nat /\ u.TimeExpired \in Timespecs /\ Ms(u.TimeExpired) \in Nat
    <3>1. \A u \in Range(ActiveTimers) : u \in TimerControls BY <2>1, RangeIndex
    <3>2. \A u \in Range(ActiveTimers) : u.id \in Nat /\ u.TimeExpired \in Timespecs
        BY <3>1 DEF TimerControls
    <3> QED BY <3>2, TimesCompare
  <2>3. fired' # fired
    <3>1. Len(fired') = Len(fired) + 1 /\ Len(fired) \in Nat
        BY <2>1, <2>2, AppendProperties, LenProperties
    <3> QED BY <3>1
  <2>4. FireTimer
      BY <2>3 DEF TimersNext, Tick, QueueTimerCallback, CancelTimerCallback, ExpirerStep,
                  WakeExpirer, LockTimers, RestExpirer
  <2>5. PICK head : head = Head(ActiveTimers) OBVIOUS
  <2>6. /\ ActiveTimers # <<>> /\ compare_timespec(Now, head.TimeExpired) >= 0
        /\ fired' = Append(fired, head.id) /\ DueInOrder(ActiveTimers)
      BY <2>4, <2>5 DEF FireTimer, Expired
  <2>7. head = ActiveTimers[1] /\ 1 \in 1 .. Len(ActiveTimers) BY <2>1, <2>5, <2>6, EmptySeq
  <2>8. head \in Range(ActiveTimers) BY <2>1, <2>7, RangeIndex
  <2>9. t = head
    <3>1. head.id \in Nat /\ t.id \in Nat BY <2>2, <2>8
    <3>3. Append(fired, head.id) = Append(fired, t.id) BY <2>6
    <3>2. head.id = t.id BY ONLY <2>1, <3>1, <3>3, AppendInjective
    <3> QED BY <2>8, <3>2 DEF TimersApart
  <2>10. Ms(t.TimeExpired) <= ticks * TimerTick
    <3>1. PICK read \in 0 .. ticks : Now = now_timespec(read) BY DEF TimersTyped
    <3>2. read \in Nat /\ ticks \in Nat /\ read <= ticks BY <3>1 DEF TimersTyped
    <3>3. Now \in Timespecs /\ Ms(Now) = read * TimerTick BY <3>1, <3>2, ClockIsTimespec
    <3>4. PICK a, b : a = Ms(Now) /\ b = Ms(t.TimeExpired) OBVIOUS
    <3>5. /\ a \in Nat /\ b \in Nat
          /\ compare_timespec(Now, t.TimeExpired) = IF a > b THEN 1 ELSE IF a < b THEN -1 ELSE 0
        BY <2>2, <3>3, <3>4, TimesCompare
    <3>6. b <= a BY <2>6, <2>9, <3>5
    <3>7. TimerTick \in Nat BY TimerAssumption
    <3>8. read * TimerTick <= ticks * TimerTick
        BY ONLY <3>2, <3>7, SMT
    <3>9. read * TimerTick \in Nat /\ ticks * TimerTick \in Nat BY <3>2, <3>7
    <3> QED BY <3>3, <3>4, <3>5, <3>6, <3>8, <3>9
  <2>11. ASSUME NEW u \in Range(ActiveTimers) PROVE Ms(t.TimeExpired) <= Ms(u.TimeExpired)
    <3>1. PICK i \in 1 .. Len(ActiveTimers) : ActiveTimers[i] = u BY <2>1, RangeIndex
    <3>2. CASE i = 1 BY <2>2, <2>7, <2>9, <3>1, <3>2
    <3>3. CASE i > 1 BY <2>6, <2>7, <2>9, <3>1, <3>3 DEF DueInOrder
    <3> QED BY <3>2, <3>3
  <2> QED BY <2>10, <2>11
<1>2. [Next]_vars => [TimersNext]_timersVars
    BY DEF Next, vars, TimersRun, WorkQueueRuns, LogRuns, EventsRun, StoreRuns, GpioRuns
<1>3. TimersInv /\ [Next]_vars => [InTime]_timersVars BY <1>1, <1>2
<1>4. [][InTime]_timersVars <=> EarliestFirst BY DEF EarliestFirst
<1> HIDE DEF InTime
<1> QED BY <1>3, <1>4, TimersInvariant, PTL DEF Spec

(***************************************************************************)
(* The work queue.                                                          *)
(***************************************************************************)
WorkTyped ==
    /\ WorkItems \in Seq(Nat) /\ called \in Seq(Nat) /\ workNr \in Nat
    /\ ThreadMessageSemaphore \in Nat /\ TerminateWorkQueue \in BOOLEAN
    /\ worker \in {"starting", "waiting", "draining", "calling", "dead"}

\* The items that wait are those queued since the last one called, in order.
WorkFollows ==
    worker # "dead" =>
        /\ Len(called) + Len(WorkItems) = workNr
        /\ \A i \in 1 .. Len(WorkItems) : WorkItems[i] = Len(called) + i

WorkInv == /\ WorkTyped /\ WorkFollows /\ WorkNoticed
           /\ \A i \in 1 .. Len(called) : called[i] = i

LEMMA WorkStarts == WorkInit => WorkInv
<1> SUFFICES ASSUME WorkInit PROVE WorkInv OBVIOUS
<1>1. <<>> \in Seq(Nat) /\ Len(<<>>) = 0 BY EmptySeq
<1>2. /\ WorkItems = <<>> /\ called = <<>> /\ workNr = 0 /\ ThreadMessageSemaphore = 0
      /\ TerminateWorkQueue = FALSE /\ worker = "starting"
    BY DEF WorkInit
<1>3. Len(called) = 0 /\ Len(WorkItems) = 0 BY <1>1, <1>2
<1>4. WorkFollows BY <1>2, <1>3 DEF WorkFollows
<1>5. WorkTyped /\ WorkNoticed BY <1>1, <1>2 DEF WorkTyped, WorkNoticed
<1> QED BY <1>3, <1>4, <1>5 DEF WorkInv

LEMMA WorkStep == WorkInv /\ [WorkNext]_workVars => WorkInv'
<1> SUFFICES ASSUME WorkInv, [WorkNext]_workVars PROVE WorkInv' OBVIOUS
<1> USE DEF WorkInv
<1>0. /\ Len(called) \in Nat /\ Len(WorkItems) \in Nat
      /\ WorkItems \in Seq(Nat) /\ called \in Seq(Nat)
    BY LenProperties DEF WorkTyped
<1>1. CASE WorkNext /\ QueueWorkItem
  <2>1. /\ WorkItems' = Append(WorkItems, workNr + 1) /\ workNr' = workNr + 1
        /\ ThreadMessageSemaphore' = ThreadMessageSemaphore + 1
        /\ TerminateWorkQueue' = TerminateWorkQueue /\ worker' = worker /\ called' = called
        /\ workNr \in Nat /\ worker # "dead"
      BY <1>1 DEF QueueWorkItem, QueueItem, WorkNext, WorkTyped
  <2>2. /\ WorkItems' \in Seq(Nat) /\ Len(WorkItems') = Len(WorkItems) + 1
        /\ \A i \in 1 .. Len(WorkItems) : WorkItems'[i] = WorkItems[i]
        /\ WorkItems'[Len(WorkItems) + 1] = workNr + 1
      BY <1>0, <2>1, AppendProperties
  <2>3. WorkFollows'
    <3>1. Len(called) + Len(WorkItems) = workNr BY <2>1 DEF WorkFollows
    <3>2. \A i \in 1 .. Len(WorkItems') : WorkItems'[i] = Len(called) + i
      <4> TAKE i \in 1 .. Len(WorkItems')
      <4>1. CASE i = Len(WorkItems) + 1
        <5>1. WorkItems'[i] = workNr + 1 BY <2>2, <4>1
        <5> QED BY <1>0, <3>1, <4>1, <5>1
      <4>2. CASE i # Len(WorkItems) + 1
        <5>1. i \in 1 .. Len(WorkItems) BY <1>0, <2>2, <4>2
        <5>2. WorkItems[i] = Len(called) + i BY <2>1, <5>1 DEF WorkFollows
        <5>3. WorkItems'[i] = WorkItems[i] BY <2>2, <5>1
        <5> QED BY <5>2, <5>3
      <4> QED BY <4>1, <4>2
    <3> QED BY <1>0, <2>1, <2>2, <3>1, <3>2 DEF WorkFollows
  <2> QED BY <2>1, <2>2, <2>3 DEF WorkTyped, WorkNoticed
<1>2. CASE WorkNext /\ DestroyWorkQueue
    BY <1>2 DEF DestroyWorkQueue, WorkTyped, WorkFollows, WorkNoticed
<1>3. CASE WorkNext /\ WorkerStarts
    BY <1>3 DEF WorkerStarts, WorkTyped, WorkFollows, WorkNoticed
<1>4. CASE WorkNext /\ WorkerWakes
  <2>1. <<>> \in Seq(Nat) BY EmptySeq
  <2>2. /\ worker = "waiting" /\ workNr' = workNr /\ called' = called
        /\ TerminateWorkQueue' = TerminateWorkQueue
        /\ ThreadMessageSemaphore' = ThreadMessageSemaphore - 1 /\ ThreadMessageSemaphore > 0
      BY <1>4 DEF WorkerWakes
  <2>3. CASE TerminateWorkQueue
    <3>1. worker' = "dead" /\ WorkItems' = <<>> BY <1>4, <2>3 DEF WorkerWakes
    <3> QED BY <2>1, <2>2, <3>1 DEF WorkTyped, WorkFollows, WorkNoticed
  <2>4. CASE ~TerminateWorkQueue
    <3>1. worker' = "draining" /\ WorkItems' = WorkItems BY <1>4, <2>4 DEF WorkerWakes
    <3> QED BY <2>2, <2>4, <3>1 DEF WorkTyped, WorkFollows, WorkNoticed
  <2> QED BY <2>3, <2>4 
<1>5. CASE WorkNext /\ WorkerDequeues
  <2> USE DEF WorkerDequeues
  <2>1. CASE WorkItems = <<>>
      BY <1>5, <2>1 DEF WorkTyped, WorkFollows, WorkNoticed
  <2>2. CASE WorkItems # <<>>
    <3>1. PICK rest, first, more : /\ rest = Tail(WorkItems) /\ first = Head(WorkItems)
                                   /\ more = Append(called, first)
        OBVIOUS
    <3>2. /\ WorkItems' = rest /\ called' = more /\ worker' = "calling" /\ worker = "draining"
          /\ workNr' = workNr /\ TerminateWorkQueue' = TerminateWorkQueue
          /\ ThreadMessageSemaphore' = ThreadMessageSemaphore
        BY <1>5, <2>2, <3>1
    <3>3. /\ rest \in Seq(Nat) /\ Len(rest) = Len(WorkItems) - 1 /\ first \in Nat
          /\ \A i \in 1 .. Len(rest) : rest[i] = WorkItems[i + 1]
        BY <1>0, <2>2, <3>1, HeadTailProperties
    <3>4. 1 \in 1 .. Len(WorkItems) /\ first = WorkItems[1] BY <1>0, <2>2, <3>1, EmptySeq
    <3>5. first = Len(called) + 1 /\ Len(called) + Len(WorkItems) = workNr
        BY <3>2, <3>4 DEF WorkFollows
    <3>6. /\ more \in Seq(Nat) /\ Len(more) = Len(called) + 1
          /\ \A i \in 1 .. Len(called) : more[i] = called[i]
          /\ more[Len(called) + 1] = first
        BY <1>0, <3>1, <3>3, AppendProperties
    <3>7. \A i \in 1 .. Len(more) : more[i] = i BY <1>0, <3>5, <3>6
    <3>8. \A i \in 1 .. Len(rest) : rest[i] = Len(more) + i
      <4> TAKE i \in 1 .. Len(rest)
      <4>1. i + 1 \in 1 .. Len(WorkItems) BY <1>0, <3>3
      <4>2. WorkItems[i + 1] = Len(called) + (i + 1) BY <3>2, <4>1 DEF WorkFollows
      <4> QED BY <1>0, <3>3, <3>6, <4>2
    <3>9. Len(more) + Len(rest) = workNr BY <1>0, <3>3, <3>5, <3>6
    <3> QED BY <3>2, <3>3, <3>6, <3>7, <3>8, <3>9 DEF WorkTyped, WorkFollows, WorkNoticed
  <2> QED BY <2>1, <2>2
<1>6. CASE WorkNext /\ CallbackReturns
    BY <1>6 DEF CallbackReturns, WorkTyped, WorkFollows, WorkNoticed
<1>7. CASE UNCHANGED workVars
    BY <1>7 DEF workVars, WorkTyped, WorkFollows, WorkNoticed
<1> QED BY <1>1, <1>2, <1>3, <1>4, <1>5, <1>6, <1>7 DEF WorkNext, WorkerStep

\* QueueWorkItem, WorkQueueThread: the items are called in the order they were
\* queued in, each once; and the thread never waits with an item in the list, or
\* after the end of the queue, without a post to wake it.
THEOREM WorkIsOrdered == Spec => [](WorkInOrder /\ WorkNoticed)
<1>1. Init => WorkInv BY WorkStarts DEF Init
<1>2. [Next]_vars => [WorkNext]_workVars
    BY DEF Next, vars, TimersRun, WorkQueueRuns, LogRuns, EventsRun, StoreRuns, GpioRuns
<1>3. WorkInv /\ [Next]_vars => WorkInv' BY <1>2, WorkStep
<1>4. WorkInv => WorkInOrder /\ WorkNoticed
  <2> SUFFICES ASSUME WorkInv PROVE WorkInOrder /\ WorkNoticed OBVIOUS
  <2>1. called \in [1 .. Len(called) -> Nat] BY LenProperties DEF WorkInv, WorkTyped
  <2> QED BY <2>1 DEF WorkInv, WorkInOrder
<1> QED BY <1>1, <1>3, <1>4, PTL DEF Spec

(***************************************************************************)
(* The log.                                                                 *)
(***************************************************************************)
AllFiles == UNION {[D -> Seq(Nat)] : D \in SUBSET (0 .. LastLogFile)}

LEMMA MessagesAssociate == \A p, q, r \in Seq(Nat) : (p \o q) \o r = p \o (q \o r)
<1> TAKE p, q, r \in Seq(Nat)
<1> QED BY ConcatAssociative

\* The files, from the first on: what is in each precedes what is in the next.
TextRuns(run, files) ==
    /\ run[0] = InFile(files, 0)
    /\ \A k \in 1 .. LastLogFile : run[k] = InFile(files, k) \o run[k - 1]

\* A file, if it exists, holds messages.
LEMMA FilesHoldText ==
    \A files \in AllFiles : /\ \A k \in Nat : InFile(files, k) \in Seq(Nat)
                            /\ files = [k \in DOMAIN files |-> files[k]]
                            /\ DOMAIN files \subseteq 0 .. LastLogFile
<1> SUFFICES ASSUME NEW files \in AllFiles
             PROVE  /\ \A k \in Nat : InFile(files, k) \in Seq(Nat)
                    /\ files = [k \in DOMAIN files |-> files[k]]
                    /\ DOMAIN files \subseteq 0 .. LastLogFile
    OBVIOUS
<1>1. PICK D \in SUBSET (0 .. LastLogFile) : files \in [D -> Seq(Nat)] BY DEF AllFiles
<1>2. <<>> \in Seq(Nat) BY EmptySeq
<1> QED BY <1>1, <1>2 DEF InFile

LEMMA FilesAre ==
    ASSUME NEW D \in SUBSET (0 .. LastLogFile), NEW files \in [D -> Seq(Nat)]
    PROVE  files \in AllFiles
BY DEF AllFiles

\* The text, file by file.
LEMMA TextSteps ==
    ASSUME NEW files \in AllFiles
    PROVE  \E run \in [0 .. LastLogFile -> Seq(Nat)] :
              TextRuns(run, files) /\ Text(files) = run[LastLogFile]
<1> DEFINE T == Seq(Nat)
           n == LastLogFile
           body(f) == [k \in 0 .. n |-> IF k = 0 THEN InFile(files, 0)
                                        ELSE InFile(files, k) \o f[k - 1]]
           step == [p \in (1 .. n) \X T |-> InFile(files, p[1]) \o p[2]]
<1>1. n \in Nat BY LogAssumption
<1>2. \A k \in 0 .. n : InFile(files, k) \in T BY <1>1, FilesHoldText
<1>3. \A k \in 1 .. n : \A list \in T : InFile(files, k) \o list \in T
  <2> TAKE k \in 1 .. n
  <2>1. InFile(files, k) \in T BY <1>1, <1>2
  <2> QED BY <2>1, ConcatProperties
<1>4. step \in [(1 .. n) \X T -> T] BY <1>3
<1>13. InFile(files, 0) \in T BY <1>1, <1>2
<1>5. PICK run \in [0 .. n -> T] : Follows(run, n, InFile(files, 0), step)
  <2> HIDE DEF step, T, n
  <2> QED BY <1>1, <1>13, <1>4, Recursion
<1>6. run[0] = InFile(files, 0) BY <1>5 DEF Follows
<1>7. \A k \in 1 .. n : run[k] = InFile(files, k) \o run[k - 1]
  <2> TAKE k \in 1 .. n
  <2>1. k - 1 \in 0 .. n BY <1>1
  <2>2. run[k - 1] \in T BY <2>1
  <2>3. <<k, run[k - 1]>> \in (1 .. n) \X T BY <2>2
  <2>4. run[k] = step[<<k, run[k - 1]>>] BY <1>5 DEF Follows
  <2> QED BY <2>3, <2>4
<1>8. run = body(run)
  <2>1. \A k \in 0 .. n : k # 0 => k \in 1 .. n BY <1>1
  <2>2. \A k \in 0 .. n : run[k] = IF k = 0 THEN InFile(files, 0)
                                   ELSE InFile(files, k) \o run[k - 1]
      BY <1>6, <1>7, <2>1
  <2> QED BY <2>2
<1> DEFINE text == CHOOSE f : f = body(f)
<1>9. text = body(text) BY <1>8
<1>10. Text(files) = text[n] BY DEF Text
<1> HIDE DEF text
<1>11. \A k \in 0 .. n : text[k] = IF k = 0 THEN InFile(files, 0)
                                   ELSE InFile(files, k) \o text[k - 1]
  <2>1. \A k \in 0 .. n : text[k] = body(text)[k] BY <1>9
  <2> QED BY <2>1
<1>12. text[0] = run[0] BY <1>1, <1>6, <1>11
<1>14. \A k \in 1 .. n : text[k - 1] = run[k - 1] => text[k] = run[k]
  <2>1. \A k \in 1 .. n : k # 0 /\ k \in 0 .. n BY <1>1
  <2> QED BY <1>7, <1>11, <2>1
<1>15. text[n] = run[n]
  <2> HIDE DEF n
  <2> QED BY <1>1, <1>12, <1>14, SameRun
<1> QED BY <1>6, <1>7, <1>10, <1>15 DEF TextRuns

\* Files with the same messages up to the last but one differ in what the last holds.
LEMMA TextOfLast ==
    ASSUME NEW files \in AllFiles, NEW next \in AllFiles,
           \A k \in 0 .. LastLogFile - 1 : InFile(next, k) = InFile(files, k)
    PROVE  \E early \in Seq(Nat) : /\ Text(files) = InFile(files, LastLogFile) \o early
                                   /\ Text(next) = InFile(next, LastLogFile) \o early
<1>1. LastLogFile \in Nat /\ LastLogFile # 0 BY LogAssumption
<1>2. PICK run \in [0 .. LastLogFile -> Seq(Nat)] :
          TextRuns(run, files) /\ Text(files) = run[LastLogFile]
    BY TextSteps
<1>3. PICK new \in [0 .. LastLogFile -> Seq(Nat)] :
          TextRuns(new, next) /\ Text(next) = new[LastLogFile]
    BY TextSteps
<1>4. PICK n : n = LastLogFile - 1 OBVIOUS
<1>5. n \in Nat /\ n \in 0 .. LastLogFile - 1 /\ n \in 0 .. LastLogFile BY <1>1, <1>4
<1>6. new[0] = run[0]
  <2>1. 0 \in 0 .. LastLogFile - 1 BY <1>1
  <2> QED BY <1>2, <1>3, <2>1 DEF TextRuns
<1>7. \A k \in 1 .. n : new[k - 1] = run[k - 1] => new[k] = run[k]
  <2> TAKE k \in 1 .. n
  <2>1. k \in 1 .. LastLogFile /\ k \in 0 .. LastLogFile - 1 BY <1>1, <1>4
  <2>2. InFile(next, k) = InFile(files, k) BY <2>1
  <2> QED BY <1>2, <1>3, <2>1, <2>2 DEF TextRuns
<1>8. new[n] = run[n] BY <1>5, <1>6, <1>7, SameRun
<1>9. LastLogFile \in 1 .. LastLogFile BY <1>1
<1>10. /\ run[LastLogFile] = InFile(files, LastLogFile) \o run[n]
       /\ new[LastLogFile] = InFile(next, LastLogFile) \o new[n]
    BY <1>2, <1>3, <1>4, <1>9 DEF TextRuns
<1> QED BY <1>2, <1>3, <1>5, <1>8, <1>10

\* Files that hold the same have the same text.
LEMMA TextSame ==
    ASSUME NEW files \in AllFiles, NEW next \in AllFiles,
           \A k \in 0 .. LastLogFile : InFile(next, k) = InFile(files, k)
    PROVE  Text(next) = Text(files)
<1>1. LastLogFile \in 0 .. LastLogFile /\ \A k \in 0 .. LastLogFile - 1 : k \in 0 .. LastLogFile
    BY LogAssumption
<1>2. \E early \in Seq(Nat) : /\ Text(files) = InFile(files, LastLogFile) \o early
                              /\ Text(next) = InFile(next, LastLogFile) \o early
    BY <1>1, TextOfLast
<1> QED BY <1>1, <1>2

\* unlink: what the last file held is lost, and nothing else.
LEMMA TextUnlinked ==
    ASSUME NEW files \in AllFiles
    PROVE  /\ Without(files, LastLogFile) \in AllFiles
           /\ Text(files) = InFile(files, LastLogFile) \o Text(Without(files, LastLogFile))
           /\ LastLogFile \notin DOMAIN Without(files, LastLogFile)
<1>1. PICK next : next = Without(files, LastLogFile) OBVIOUS
<1>2. PICK D \in SUBSET (0 .. LastLogFile) : files \in [D -> Seq(Nat)] BY DEF AllFiles
<1>3. D \ {LastLogFile} \in SUBSET (0 .. LastLogFile) /\ next \in [D \ {LastLogFile} -> Seq(Nat)]
      /\ next = [k \in D \ {LastLogFile} |-> files[k]]
    BY <1>1, <1>2 DEF Without
<1>4. next \in AllFiles BY <1>3, FilesAre
<1>5. LastLogFile \in Nat BY LogAssumption
<1>6. \A k \in 0 .. LastLogFile - 1 : InFile(next, k) = InFile(files, k)
  <2> TAKE k \in 0 .. LastLogFile - 1
  <2>1. k # LastLogFile BY <1>5
  <2> QED BY <1>2, <1>3, <2>1 DEF InFile
<1>7. InFile(next, LastLogFile) = <<>> BY <1>3 DEF InFile
<1>8. PICK early \in Seq(Nat) : /\ Text(files) = InFile(files, LastLogFile) \o early
                                /\ Text(next) = InFile(next, LastLogFile) \o early
    BY <1>4, <1>6, TextOfLast
<1>9. Text(next) = early BY <1>7, <1>8, ConcatEmptySeq
<1> QED BY <1>1, <1>3, <1>4, <1>8, <1>9

\* rename to a number that no file has: nothing is lost, and the order is kept.
LEMMA TextMoved ==
    ASSUME NEW files \in AllFiles, NEW s \in 0 .. LastLogFile - 1, s + 1 \notin DOMAIN files
    PROVE  /\ Moved(files, s) \in AllFiles /\ Text(Moved(files, s)) = Text(files)
           /\ s \notin DOMAIN Moved(files, s)
<1>0. LastLogFile \in Nat /\ s \in Nat /\ s \in 0 .. LastLogFile BY LogAssumption
<1>1. CASE s \notin DOMAIN files BY <1>1 DEF Moved
<1>2. CASE s \in DOMAIN files
  <2>1. PICK next : next = Moved(files, s) OBVIOUS
  <2>2. PICK D \in SUBSET (0 .. LastLogFile) : files \in [D -> Seq(Nat)] BY DEF AllFiles
  <2>3. PICK E : E = (D \ {s}) \cup {s + 1} OBVIOUS
  <2>4. E \in SUBSET (0 .. LastLogFile) BY <1>0, <2>3
  <2>5. next = [k \in E |-> IF k = s + 1 THEN files[s] ELSE files[k]]
      BY <1>2, <2>1, <2>2, <2>3 DEF Moved
  <2>6. \A k \in E : k = s + 1 \/ k \in D BY <2>3
  <2>7. next \in [E -> Seq(Nat)] BY <1>2, <2>2, <2>5, <2>6
  <2>8. next \in AllFiles BY <2>4, <2>7, FilesAre
  <2>9. s \notin E /\ s + 1 \in E /\ s + 1 \notin D BY <1>0, <2>2, <2>3
  <2>10. InFile(next, s) = <<>> /\ InFile(files, s + 1) = <<>> BY <2>2, <2>7, <2>9 DEF InFile
  <2>11. InFile(next, s + 1) = InFile(files, s) BY <1>2, <2>5, <2>9 DEF InFile
  <2>12. \A k : k # s /\ k # s + 1 => InFile(next, k) = InFile(files, k)
    <3> TAKE k
    <3> HAVE k # s /\ k # s + 1
    <3>1. k \in E <=> k \in D BY <2>3
    <3>2. k \in E => next[k] = files[k] BY <2>5
    <3> QED BY <2>2, <2>7, <3>1, <3>2 DEF InFile
  <2>13. PICK run \in [0 .. LastLogFile -> Seq(Nat)] :
            TextRuns(run, files) /\ Text(files) = run[LastLogFile]
      BY TextSteps
  <2>14. PICK new \in [0 .. LastLogFile -> Seq(Nat)] :
            TextRuns(new, next) /\ Text(next) = new[LastLogFile]
      BY <2>8, TextSteps
  <2> DEFINE P == {k \in 0 .. LastLogFile :
                      IF k = s THEN InFile(files, s) \o new[s] = run[s] ELSE new[k] = run[k]}
  <2>15. InFile(files, s) \in Seq(Nat) BY <1>0, FilesHoldText
  <2>16. 0 \in P
    <3>1. CASE s = 0
      <4>1. new[0] = <<>> /\ run[0] = InFile(files, 0)
          BY <2>10, <2>13, <2>14, <3>1 DEF TextRuns
      <4>2. InFile(files, 0) \o <<>> = InFile(files, 0) BY <2>15, <3>1, ConcatEmptySeq
      <4> QED BY <1>0, <3>1, <4>1, <4>2
    <3>2. CASE s # 0
      <4>0. 0 # s /\ 0 # s + 1 BY <1>0, <3>2
      <4>1. InFile(next, 0) = InFile(files, 0) BY <2>12, <4>0
      <4>2. new[0] = run[0] BY <2>13, <2>14, <4>1 DEF TextRuns
      <4> QED BY <1>0, <3>2, <4>2
    <3> QED BY <3>1, <3>2
  <2>17. ASSUME NEW k \in 0 .. LastLogFile - 1, k \in P PROVE k + 1 \in P
    <3>1. k + 1 \in 1 .. LastLogFile /\ k + 1 \in 0 .. LastLogFile /\ k \in 0 .. LastLogFile
          /\ (k + 1) - 1 = k
        BY <1>0
    <3>2. /\ run[k + 1] = InFile(files, k + 1) \o run[k]
          /\ new[k + 1] = InFile(next, k + 1) \o new[k]
        BY <2>13, <2>14, <3>1 DEF TextRuns
    <3>3. run[k] \in Seq(Nat) /\ new[k] \in Seq(Nat) BY <3>1
    <3>4. CASE k = s
      <4>1. InFile(files, s) \o new[s] = run[s] BY <2>17, <3>4
      <4>2. run[s + 1] = <<>> \o run[s] BY <2>10, <3>2, <3>4
      <4>3. new[s + 1] = InFile(files, s) \o new[s] BY <2>11, <3>2, <3>4
      <4>4. new[s + 1] = run[s + 1] BY <3>3, <3>4, <4>1, <4>2, <4>3, ConcatEmptySeq
      <4> QED BY <1>0, <3>1, <3>4, <4>4
    <3>5. CASE k + 1 = s
      <4>1. new[k] = run[k] BY <1>0, <2>17, <3>1, <3>5
      <4>2. new[s] = <<>> \o new[k] /\ run[s] = InFile(files, s) \o run[k]
          BY <2>10, <3>2, <3>5
      <4>3. InFile(files, s) \o new[s] = run[s] BY <3>3, <4>1, <4>2, ConcatEmptySeq
      <4> QED BY <3>1, <3>5, <4>3
    <3>6. CASE k # s /\ k + 1 # s
      <4>1. new[k] = run[k] BY <2>17, <3>6
      <4>0. k + 1 # s /\ k + 1 # s + 1 BY <1>0, <3>1, <3>6
      <4>2. InFile(next, k + 1) = InFile(files, k + 1) BY <2>12, <4>0
      <4>3. new[k + 1] = run[k + 1] BY <3>2, <4>1, <4>2
      <4> QED BY <3>1, <3>6, <4>3
    <3> QED BY <3>4, <3>5, <3>6
  <2>18. LastLogFile \in P
    <3>1. LastLogFile \in 0 .. LastLogFile BY <1>0
    <3> HIDE DEF P
    <3> QED BY <1>0, <2>16, <2>17, <3>1, UpTo
  <2>19. new[LastLogFile] = run[LastLogFile] BY <1>0, <2>18
  <2> QED BY <2>1, <2>7, <2>8, <2>9, <2>13, <2>14, <2>19
<1> QED BY <1>1, <1>2

\* A message written to the first file is the last of the text.
LEMMA TextWritten ==
    ASSUME NEW files \in AllFiles, NEW m \in Nat, 0 \in DOMAIN files,
           NEW next, next = [files EXCEPT ![0] = Append(@, m)]
    PROVE  next \in AllFiles /\ 0 \in DOMAIN next /\ Text(next) = Text(files) \o <<m>>
<1>0. LastLogFile \in Nat BY LogAssumption
<1>1. PICK D \in SUBSET (0 .. LastLogFile) : files \in [D -> Seq(Nat)] BY DEF AllFiles
<1>2. files[0] \in Seq(Nat) BY <1>1
<1>3. Append(files[0], m) \in Seq(Nat) /\ Append(files[0], m) = files[0] \o <<m>> /\ <<m>> \in Seq(Nat)
    BY <1>2, AppendProperties, AppendIsConcat
<1>4. next \in [D -> Seq(Nat)] BY <1>1, <1>3
<1>5. next \in AllFiles BY <1>4, FilesAre
<1>6. InFile(next, 0) = InFile(files, 0) \o <<m>> BY <1>1, <1>3, <1>4 DEF InFile
<1>7. \A k : k # 0 => InFile(next, k) = InFile(files, k) BY <1>1, <1>4 DEF InFile
<1>8. PICK run \in [0 .. LastLogFile -> Seq(Nat)] :
          TextRuns(run, files) /\ Text(files) = run[LastLogFile]
    BY TextSteps
<1>9. PICK new \in [0 .. LastLogFile -> Seq(Nat)] :
          TextRuns(new, next) /\ Text(next) = new[LastLogFile]
    BY <1>5, TextSteps
<1> DEFINE longer == [k \in 0 .. LastLogFile |-> run[k] \o <<m>>]
<1>10. new[0] = longer[0]
  <2>1. longer[0] = run[0] \o <<m>> BY <1>0
  <2> QED BY <1>6, <1>8, <1>9, <2>1 DEF TextRuns
<1>11. ASSUME NEW k \in 1 .. LastLogFile, new[k - 1] = longer[k - 1] PROVE new[k] = longer[k]
  <2>1. k - 1 \in 0 .. LastLogFile /\ k \in 0 .. LastLogFile /\ k # 0 /\ k \in Nat BY <1>0
  <2>2. longer[k - 1] = run[k - 1] \o <<m>> /\ longer[k] = run[k] \o <<m>> BY <2>1
  <2>3. /\ run[k] = InFile(files, k) \o run[k - 1] /\ new[k] = InFile(files, k) \o new[k - 1]
      BY <1>7, <1>8, <1>9, <2>1 DEF TextRuns
  <2>4. InFile(files, k) \in Seq(Nat) /\ run[k - 1] \in Seq(Nat) BY <2>1, FilesHoldText
  <2>5. InFile(files, k) \o (run[k - 1] \o <<m>>) = (InFile(files, k) \o run[k - 1]) \o <<m>>
    <3>1. PICK one, first, rest : one = <<m>> /\ first = InFile(files, k) /\ rest = run[k - 1]
        OBVIOUS
    <3>2. one \in Seq(Nat) /\ first \in Seq(Nat) /\ rest \in Seq(Nat) BY <1>3, <2>4, <3>1
    <3>4. \A p, q, r \in Seq(Nat) : (p \o q) \o r = p \o (q \o r) BY MessagesAssociate
    <3>3. (first \o rest) \o one = first \o (rest \o one) BY <3>2, <3>4
    <3> QED BY <3>1, <3>3
  <2> HIDE DEF longer
  <2> QED BY <1>11, <2>2, <2>3, <2>5
<1>12. new[LastLogFile] = longer[LastLogFile]
  <2> HIDE DEF longer
  <2> QED BY <1>0, <1>10, <1>11, SameRun
<1>13. longer[LastLogFile] = run[LastLogFile] \o <<m>> BY <1>0
<1> QED BY <1>4, <1>5, <1>1, <1>8, <1>9, <1>12, <1>13

\* What is appended to is a prefix of the whole.
LEMMA PrefixOfConcat ==
    ASSUME NEW s \in Seq(Nat), NEW t \in Seq(Nat)
    PROVE  IsPrefix(s, s \o t)
<1>1. /\ Len(s) \in Nat /\ Len(t) \in Nat /\ Len(s \o t) = Len(s) + Len(t)
      /\ \A i \in 1 .. Len(s) + Len(t) : (s \o t)[i] = IF i <= Len(s) THEN s[i] ELSE t[i - Len(s)]
      /\ s \o t \in Seq(Nat)
    BY LenProperties, ConcatProperties
<1>2. SubSeq(s \o t, 1, Len(s)) = SubSeq(s, 1, Len(s))
  <2>1. \A i \in 1 .. Len(s) : (s \o t)[i] = s[i] BY <1>1
  <2>2. PICK u : u = s \o t OBVIOUS
  <2>3. SubSeq(u, 1, Len(s)) = [i \in 1 .. Len(s) |-> u[i]]
        /\ SubSeq(s, 1, Len(s)) = [i \in 1 .. Len(s) |-> s[i]]
      BY <1>1, <2>2
  <2> QED BY <2>1, <2>2, <2>3
<1> QED BY <1>1, <1>2 DEF IsPrefix

\* What is appended is a suffix of the whole.
LEMMA SuffixOfConcat ==
    ASSUME NEW s \in Seq(Nat), NEW t \in Seq(Nat)
    PROVE  IsSuffix(t, s \o t)
<1>1. PICK u : u = s \o t OBVIOUS
<1>2. /\ Len(s) \in Nat /\ Len(t) \in Nat /\ Len(u) = Len(s) + Len(t)
      /\ \A i \in 1 .. Len(s) + Len(t) : u[i] = IF i <= Len(s) THEN s[i] ELSE t[i - Len(s)]
      /\ u \in Seq(Nat)
    BY <1>1, LenProperties, ConcatProperties
<1>3. PICK rt : rt = Reverse(t) OBVIOUS
<1>4. PICK ru : ru = Reverse(u) OBVIOUS
<1>5. /\ rt \in [1 .. Len(t) -> Nat] /\ ru \in [1 .. Len(u) -> Nat]
      /\ \A i \in 1 .. Len(t) : rt[i] = t[(Len(t) - i) + 1]
      /\ \A i \in 1 .. Len(u) : ru[i] = u[(Len(u) - i) + 1]
  <2>1. \A i \in 1 .. Len(t) : t[(Len(t) - i) + 1] \in Nat
    <3> TAKE i \in 1 .. Len(t)
    <3>1. (Len(t) - i) + 1 \in 1 .. Len(t) BY <1>2
    <3> QED BY <3>1, ElementOfSeq
  <2>2. \A i \in 1 .. Len(u) : u[(Len(u) - i) + 1] \in Nat
    <3> TAKE i \in 1 .. Len(u)
    <3>1. (Len(u) - i) + 1 \in 1 .. Len(u) BY <1>2
    <3> QED BY <1>2, <3>1, ElementOfSeq
  <2> QED BY <1>3, <1>4, <2>1, <2>2 DEF Reverse
<1>6. rt \in Seq(Nat) /\ ru \in Seq(Nat)
  <2>1. \A n \in Nat : \A seq \in [1 .. n -> Nat] : seq \in Seq(Nat) BY SeqDef
  <2>2. rt \in [1 .. Len(t) -> Nat] BY <1>5
  <2>3. ru \in [1 .. Len(u) -> Nat] BY <1>5
  <2>4. Len(t) \in Nat /\ Len(u) \in Nat BY <1>2, LenProperties
  <2> QED BY ONLY <2>1, <2>2, <2>3, <2>4
<1>7. Len(rt) = Len(t) /\ Len(ru) = Len(u) BY <1>2, <1>5, <1>6, LenProperties
<1>8. \A i \in 1 .. Len(t) : ru[i] = rt[i]
  <2> TAKE i \in 1 .. Len(t)
  <2>0. PICK a, b : a = Len(s) /\ b = Len(t) OBVIOUS
  <2>4. a \in Nat /\ b \in Nat /\ Len(u) = a + b /\ i \in 1 .. b BY <1>2, <2>0
  <2>5. i \in 1 .. a + b /\ ((a + b) - i) + 1 \in 1 .. a + b
        /\ ~(((a + b) - i) + 1 <= a) /\ (((a + b) - i) + 1) - a = (b - i) + 1
      BY <2>4
  <2>1. i \in 1 .. Len(u) /\ (Len(u) - i) + 1 \in 1 .. Len(s) + Len(t)
        /\ ~((Len(u) - i) + 1 <= Len(s)) /\ ((Len(u) - i) + 1) - Len(s) = (Len(t) - i) + 1
      BY <2>0, <2>4, <2>5
  <2>2. ru[i] = u[(Len(u) - i) + 1] BY <1>5, <2>1
  <2>3. u[(Len(u) - i) + 1] = t[((Len(u) - i) + 1) - Len(s)] BY <1>2, <2>1
  <2> QED BY <1>5, <2>1, <2>2, <2>3
<1>9. SubSeq(ru, 1, Len(t)) = [i \in 1 .. Len(t) |-> ru[i]]
      /\ SubSeq(rt, 1, Len(t)) = [i \in 1 .. Len(t) |-> rt[i]]
    BY <1>2, <1>6
<1>10. SubSeq(ru, 1, Len(t)) = SubSeq(rt, 1, Len(t)) BY <1>8, <1>9
<1> QED BY <1>1, <1>2, <1>3, <1>4, <1>7, <1>10 DEF IsSuffix, IsPrefix

LogTyped ==
    /\ LogMsgQueue \in Seq(Nat) /\ written \in Seq(Nat) /\ hLogMsgEvent \in Nat /\ logNr \in Nat
    /\ logThread \in {"init", "waiting", "draining", "checking", "rotating"}
    /\ shift \in -1 .. LastLogFile /\ logFiles \in AllFiles

\* While files are renamed, none has the number after the next to be renamed.
LogShifts ==
    IF logThread \in {"init", "rotating"}
    THEN shift < LastLogFile => shift + 1 \notin DOMAIN logFiles
    ELSE shift = LastLogFile /\ 0 \in DOMAIN logFiles

\* The queue holds the newest message first, and none that was written.
LogOrder ==
    /\ \A i, j \in 1 .. Len(written) : i < j => written[i] < written[j]
    /\ \A i, j \in 1 .. Len(LogMsgQueue) : i < j => LogMsgQueue[j] < LogMsgQueue[i]
    /\ \A i \in 1 .. Len(written) : \A j \in 1 .. Len(LogMsgQueue) : written[i] < LogMsgQueue[j]
    /\ \A i \in 1 .. Len(written) : written[i] <= logNr
    /\ \A i \in 1 .. Len(LogMsgQueue) : LogMsgQueue[i] <= logNr

LogEndsWritten == \E lost \in Seq(Nat) : written = lost \o LogText

LogInv == LogTyped /\ LogShifts /\ LogOrder /\ LogEndsWritten /\ LogNoticed

\* No step takes anything from the text but what the last file held.
LogTextKept ==
    \/ IsPrefix(LogText, LogText')
    \/ LastLogFile \in DOMAIN logFiles /\ LogText = logFiles[LastLogFile] \o LogText'

LEMMA TextIsText == \A files \in AllFiles : Text(files) \in Seq(Nat)
<1> SUFFICES ASSUME NEW files \in AllFiles PROVE Text(files) \in Seq(Nat) OBVIOUS
<1>1. PICK run \in [0 .. LastLogFile -> Seq(Nat)] : Text(files) = run[LastLogFile] BY TextSteps
<1>2. LastLogFile \in 0 .. LastLogFile BY LogAssumption
<1> QED BY <1>1, <1>2

\* A step that leaves the text alone loses nothing.
LEMMA TextUnchanged == ASSUME logFiles \in AllFiles, LogText' = LogText PROVE LogTextKept
<1>1. LogText \in Seq(Nat) /\ <<>> \in Seq(Nat) BY TextIsText, EmptySeq DEF LogText
<1>2. LogText \o <<>> = LogText BY <1>1, ConcatEmptySeq
<1> QED BY <1>1, <1>2, PrefixOfConcat DEF LogTextKept

LEMMA LogStarts == LogInit => LogInv
<1> SUFFICES ASSUME LogInit PROVE LogInv OBVIOUS
<1> USE DEF LogInit
<1>1. <<>> \in Seq(Nat) /\ Len(<<>>) = 0 BY EmptySeq
<1>2. LastLogFile \in Nat /\ LastLogFile # 0 BY LogAssumption
<1>3. logFiles \in AllFiles /\ \A k : InFile(logFiles, k) = <<>>
  <2>1. DOMAIN <<>> = {} /\ <<>> \in [{} -> Seq(Nat)] OBVIOUS
  <2>2. {} \in SUBSET (0 .. LastLogFile) OBVIOUS
  <2> QED BY <2>1, <2>2, FilesAre DEF InFile
<1>4. LogText = <<>>
  <2>1. PICK run \in [0 .. LastLogFile -> Seq(Nat)] :
            TextRuns(run, logFiles) /\ Text(logFiles) = run[LastLogFile]
      BY <1>3, TextSteps
  <2> DEFINE none == [k \in 0 .. LastLogFile |-> <<>>]
  <2>2. run[0] = none[0] BY <1>2, <1>3, <2>1 DEF TextRuns
  <2>3. ASSUME NEW k \in 1 .. LastLogFile, run[k - 1] = none[k - 1] PROVE run[k] = none[k]
    <3>1. k - 1 \in 0 .. LastLogFile /\ k \in 0 .. LastLogFile BY <1>2
    <3>2. none[k - 1] = <<>> /\ none[k] = <<>> BY <3>1
    <3>3. run[k] = <<>> \o <<>> BY <1>3, <2>1, <2>3, <3>2 DEF TextRuns
    <3> HIDE DEF none
    <3> QED BY <1>1, <3>2, <3>3, ConcatEmptySeq
  <2>4. run[LastLogFile] = none[LastLogFile]
    <3> HIDE DEF none
    <3> QED BY <1>2, <2>2, <2>3, SameRun
  <2>5. none[LastLogFile] = <<>> BY <1>2
  <2> QED BY <2>1, <2>4, <2>5 DEF LogText
<1>5. LogEndsWritten
  <2>1. <<>> = <<>> \o <<>> BY <1>1, ConcatEmptySeq
  <2> QED BY <1>1, <1>4, <2>1 DEF LogEndsWritten
<1>6. LogTyped BY <1>1, <1>2, <1>3 DEF LogTyped
<1>7. LogShifts BY <1>2 DEF LogShifts
<1>8. LogOrder
  <2>1. Len(written) = 0 /\ Len(LogMsgQueue) = 0 BY <1>1
  <2> QED BY <2>1 DEF LogOrder
<1>9. LogNoticed BY DEF LogNoticed
<1> QED BY <1>5, <1>6, <1>7, <1>8, <1>9 DEF LogInv

LEMMA MessageKeeps == LogInv /\ LogMessage => LogInv' /\ LogText' = LogText
<1> SUFFICES ASSUME LogInv, LogMessage PROVE LogInv' /\ LogText' = LogText OBVIOUS
<1> USE DEF LogInv
<1>1. PICK m, q : m = logNr + 1 /\ q = <<m>> \o LogMsgQueue OBVIOUS
<1>2. /\ logNr' = m /\ LogMsgQueue' = q /\ hLogMsgEvent' = hLogMsgEvent + 1
      /\ logThread' = logThread /\ shift' = shift /\ logFiles' = logFiles /\ written' = written
    BY <1>1 DEF LogMessage
<1>3. LogMsgQueue \in Seq(Nat) /\ logNr \in Nat /\ m \in Nat /\ hLogMsgEvent \in Nat
    BY <1>1 DEF LogTyped
<1>4. PICK one : one = <<m>> OBVIOUS
<1>5. one \in Seq(Nat) /\ Len(one) = 1 /\ one[1] = m BY <1>3, <1>4
<1>6. /\ q \in Seq(Nat) /\ Len(LogMsgQueue) \in Nat /\ Len(q) = Len(LogMsgQueue) + 1
      /\ \A i \in 1 .. Len(q) : q[i] = IF i = 1 THEN m ELSE LogMsgQueue[i - 1]
  <2>1. /\ q \in Seq(Nat) /\ Len(q) = 1 + Len(LogMsgQueue) /\ Len(LogMsgQueue) \in Nat
        /\ \A i \in 1 .. 1 + Len(LogMsgQueue) :
              q[i] = IF i <= 1 THEN one[i] ELSE LogMsgQueue[i - 1]
      BY <1>1, <1>3, <1>4, <1>5, ConcatProperties, LenProperties
  <2> QED BY <1>5, <2>1
<1>7. \A i \in 1 .. Len(q) : i # 1 => i - 1 \in 1 .. Len(LogMsgQueue) BY <1>6
<1>8. LogTyped' BY <1>2, <1>3, <1>6 DEF LogTyped
<1>9. LogText' = LogText BY <1>2 DEF LogText
<1>10. LogOrder'
  <2> USE DEF LogOrder
  <2>1. \A i \in 1 .. Len(LogMsgQueue) : LogMsgQueue[i] \in Nat /\ LogMsgQueue[i] < m
    <3> TAKE i \in 1 .. Len(LogMsgQueue)
    <3>1. LogMsgQueue[i] \in Nat BY <1>3, ElementOfSeq
    <3> QED BY <1>1, <1>3, <3>1
  <2>2. \A i \in 1 .. Len(written) : written[i] \in Nat /\ written[i] < m
    <3> TAKE i \in 1 .. Len(written)
    <3>1. written[i] \in Nat BY ElementOfSeq DEF LogTyped
    <3> QED BY <1>1, <1>3, <3>1
  <2>3. \A i, j \in 1 .. Len(q) : i < j => q[j] < q[i]
    <3> SUFFICES ASSUME NEW i \in 1 .. Len(q), NEW j \in 1 .. Len(q), i < j PROVE q[j] < q[i]
        OBVIOUS
    <3>1. j # 1 /\ j - 1 \in 1 .. Len(LogMsgQueue) /\ q[j] = LogMsgQueue[j - 1] BY <1>6, <1>7
    <3>2. CASE i = 1 BY <1>6, <2>1, <3>1, <3>2
    <3>3. CASE i # 1
      <4>1. i - 1 \in 1 .. Len(LogMsgQueue) /\ q[i] = LogMsgQueue[i - 1] /\ i - 1 < j - 1
          BY <1>6, <1>7, <3>3
      <4> QED BY <3>1, <4>1
    <3> QED BY <3>2, <3>3
  <2>4. \A i \in 1 .. Len(written) : \A j \in 1 .. Len(q) : written[i] < q[j]
    <3> TAKE i \in 1 .. Len(written)
    <3> TAKE j \in 1 .. Len(q)
    <3>1. CASE j = 1 BY <1>6, <2>2, <3>1
    <3>2. CASE j # 1
      <4>1. j - 1 \in 1 .. Len(LogMsgQueue) /\ q[j] = LogMsgQueue[j - 1] BY <1>6, <1>7, <3>2
      <4> QED BY <4>1
    <3> QED BY <3>1, <3>2
  <2>5. \A i \in 1 .. Len(q) : q[i] <= m
    <3> TAKE i \in 1 .. Len(q)
    <3>1. CASE i = 1
      <4>1. q[i] = m BY <1>6, <3>1
      <4> QED BY <1>3, <4>1
    <3>2. CASE i # 1
      <4>1. i - 1 \in 1 .. Len(LogMsgQueue) /\ q[i] = LogMsgQueue[i - 1] BY <1>6, <1>7, <3>2
      <4>2. LogMsgQueue[i - 1] \in Nat /\ LogMsgQueue[i - 1] < m BY <2>1, <4>1
      <4> QED BY <1>3, <4>1, <4>2
    <3> QED BY <3>1, <3>2
  <2>6. \A i \in 1 .. Len(written) : written[i] <= m BY <1>3, <2>2
  <2> QED BY <1>2, <2>3, <2>4, <2>5, <2>6
<1>11. LogShifts' BY <1>2 DEF LogShifts
<1>12. LogEndsWritten' BY <1>2, <1>9 DEF LogEndsWritten
<1>13. LogNoticed' BY <1>2, <1>3 DEF LogNoticed
<1> QED BY <1>8, <1>9, <1>10, <1>11, <1>12, <1>13

LEMMA WriteKeeps == LogInv /\ WriteLogMsg => LogInv' /\ LogTextKept
<1> SUFFICES ASSUME LogInv, WriteLogMsg PROVE LogInv' /\ LogTextKept OBVIOUS
<1> USE DEF LogInv
<1>1. PICK m, q, w, one : /\ m = Last(LogMsgQueue) /\ q = Front(LogMsgQueue)
                          /\ w = Append(written, m) /\ one = <<m>>
    OBVIOUS
<1>2. /\ LogMsgQueue # <<>> /\ LogMsgQueue' = q /\ written' = w /\ logThread = "draining"
      /\ logFiles' = [logFiles EXCEPT ![0] = Append(@, m)]
      /\ hLogMsgEvent' = hLogMsgEvent /\ logThread' = logThread /\ shift' = shift /\ logNr' = logNr
    BY <1>1 DEF WriteLogMsg
<1>3. LogMsgQueue \in Seq(Nat) /\ written \in Seq(Nat) /\ logNr \in Nat BY DEF LogTyped
<1>4. Len(LogMsgQueue) \in Nat /\ Len(LogMsgQueue) # 0 /\ Len(written) \in Nat
    BY <1>2, <1>3, LenProperties, EmptySeq
<1>5. m = LogMsgQueue[Len(LogMsgQueue)] /\ Len(LogMsgQueue) \in 1 .. Len(LogMsgQueue) /\ m \in Nat
  <2>1. Len(LogMsgQueue) \in 1 .. Len(LogMsgQueue) BY <1>4
  <2>2. m = LogMsgQueue[Len(LogMsgQueue)] BY <1>1 DEF Last
  <2> QED BY <1>3, <2>1, <2>2, ElementOfSeq
<1>6. /\ q \in Seq(Nat) /\ Len(q) = Len(LogMsgQueue) - 1
      /\ \A i \in 1 .. Len(q) : q[i] = LogMsgQueue[i] /\ i \in 1 .. Len(LogMsgQueue)
                                /\ i < Len(LogMsgQueue)
  <2>1. q = SubSeq(LogMsgQueue, 1, Len(LogMsgQueue) - 1) BY <1>1 DEF Front
  <2>2. \A n \in 0 .. Len(LogMsgQueue) :
            /\ SubSeq(LogMsgQueue, 1, n) \in Seq(Nat) /\ Len(SubSeq(LogMsgQueue, 1, n)) = n
            /\ \A i \in 1 .. n : SubSeq(LogMsgQueue, 1, n)[i] = LogMsgQueue[i]
      BY <1>3, <1>4
  <2>3. Len(LogMsgQueue) - 1 \in 0 .. Len(LogMsgQueue) BY <1>4
  <2>4. /\ q \in Seq(Nat) /\ Len(q) = Len(LogMsgQueue) - 1
        /\ \A i \in 1 .. Len(LogMsgQueue) - 1 : q[i] = LogMsgQueue[i]
      BY <2>1, <2>2, <2>3
  <2>5. \A i \in 1 .. Len(LogMsgQueue) - 1 :
            i \in 1 .. Len(LogMsgQueue) /\ i < Len(LogMsgQueue)
      BY <1>4
  <2> QED BY <2>4, <2>5
<1>7. /\ w \in Seq(Nat) /\ Len(w) = Len(written) + 1 /\ w = written \o one /\ one \in Seq(Nat)
      /\ \A i \in 1 .. Len(w) : w[i] = IF i = Len(written) + 1 THEN m ELSE written[i]
  <2>1. /\ w \in Seq(Nat) /\ Len(w) = Len(written) + 1 /\ w[Len(written) + 1] = m
        /\ \A i \in 1 .. Len(written) : w[i] = written[i]
      BY <1>1, <1>3, <1>5, AppendProperties
  <2>2. w = written \o one BY <1>1, <1>3, <1>5, AppendIsConcat
  <2> QED BY <1>1, <1>4, <1>5, <2>1, <2>2
<1>8. \A i \in 1 .. Len(w) : i # Len(written) + 1 => i \in 1 .. Len(written) BY <1>4, <1>7
<1>9. logFiles \in AllFiles /\ 0 \in DOMAIN logFiles /\ shift = LastLogFile
    BY <1>2 DEF LogTyped, LogShifts
<1>10. logFiles' \in AllFiles /\ 0 \in DOMAIN logFiles' /\ LogText' = LogText \o one
    BY <1>1, <1>2, <1>5, <1>9, TextWritten DEF LogText
<1>11. LogText \in Seq(Nat) BY <1>9, TextIsText DEF LogText
<1>12. LogTextKept BY <1>7, <1>10, <1>11, PrefixOfConcat DEF LogTextKept
<1>13. LogTyped' BY <1>2, <1>6, <1>7, <1>10 DEF LogTyped
<1>14. LogShifts' BY <1>2, <1>9, <1>10 DEF LogShifts
<1>15. LogEndsWritten'
  <2>1. PICK lost \in Seq(Nat) : written = lost \o LogText BY DEF LogEndsWritten
  <2>2. \A p, r, t \in Seq(Nat) : (p \o r) \o t = p \o (r \o t) BY MessagesAssociate
  <2>3. (lost \o LogText) \o one = lost \o (LogText \o one) BY <1>7, <1>11, <2>1, <2>2
  <2>4. w = lost \o LogText' BY <1>7, <1>10, <2>1, <2>3
  <2> QED BY <1>2, <2>4 DEF LogEndsWritten
<1>16. LogOrder'
  <2> USE DEF LogOrder
  <2>1. \A i \in 1 .. Len(written) : written[i] < m BY <1>5
  <2>2. \A i \in 1 .. Len(q) : m < q[i] BY <1>5, <1>6
  <2>3. \A i, j \in 1 .. Len(w) : i < j => w[i] < w[j]
    <3> SUFFICES ASSUME NEW i \in 1 .. Len(w), NEW j \in 1 .. Len(w), i < j PROVE w[i] < w[j]
        OBVIOUS
    <3>1. i # Len(written) + 1 BY <1>4, <1>7
    <3>2. i \in 1 .. Len(written) /\ w[i] = written[i] BY <1>7, <1>8, <3>1
    <3>3. CASE j = Len(written) + 1 BY <1>7, <2>1, <3>2, <3>3
    <3>4. CASE j # Len(written) + 1 BY <1>7, <1>8, <3>2, <3>4
    <3> QED BY <3>3, <3>4
  <2>4. \A i, j \in 1 .. Len(q) : i < j => q[j] < q[i] BY <1>6
  <2>5. \A i \in 1 .. Len(w) : \A j \in 1 .. Len(q) : w[i] < q[j]
    <3> TAKE i \in 1 .. Len(w)
    <3> TAKE j \in 1 .. Len(q)
    <3>1. CASE i = Len(written) + 1 BY <1>7, <2>2, <3>1
    <3>2. CASE i # Len(written) + 1 BY <1>6, <1>7, <1>8, <3>2
    <3> QED BY <3>1, <3>2
  <2>6. \A i \in 1 .. Len(w) : w[i] <= logNr
    <3> TAKE i \in 1 .. Len(w)
    <3>1. CASE i = Len(written) + 1 BY <1>5, <1>7, <3>1
    <3>2. CASE i # Len(written) + 1 BY <1>7, <1>8, <3>2
    <3> QED BY <3>1, <3>2
  <2>7. \A i \in 1 .. Len(q) : q[i] <= logNr BY <1>6
  <2> QED BY <1>2, <2>3, <2>4, <2>5, <2>6, <2>7
<1>17. LogNoticed' BY <1>2 DEF LogNoticed
<1> QED BY <1>12, <1>13, <1>14, <1>15, <1>16, <1>17

LEMMA RotateKeeps == LogInv /\ RotateStep => LogInv' /\ LogTextKept
<1> SUFFICES ASSUME LogInv, RotateStep PROVE LogInv' /\ LogTextKept OBVIOUS
<1> USE DEF LogInv
<1>1. /\ logThread \in {"init", "rotating"} /\ shift >= 0 /\ shift' = shift - 1
      /\ logFiles' = Shifted(logFiles)
      /\ LogMsgQueue' = LogMsgQueue /\ hLogMsgEvent' = hLogMsgEvent /\ logThread' = logThread
      /\ logNr' = logNr /\ written' = written
    BY DEF RotateStep
<1>2. LastLogFile \in Nat /\ shift \in 0 .. LastLogFile /\ logFiles \in AllFiles
    BY <1>1, LogAssumption DEF LogTyped
<1>3. PICK lost \in Seq(Nat) : written = lost \o LogText BY DEF LogEndsWritten
<1>4. LogText \in Seq(Nat) BY <1>2, TextIsText DEF LogText
<1>5. /\ logFiles' \in AllFiles /\ shift \notin DOMAIN logFiles'
      /\ LogTextKept /\ \E gone \in Seq(Nat) : written = gone \o LogText'
  <2>1. CASE shift = LastLogFile
    <3>1. logFiles' = Without(logFiles, LastLogFile) BY <1>1, <2>1 DEF Shifted
    <3>2. /\ logFiles' \in AllFiles /\ shift \notin DOMAIN logFiles'
          /\ LogText = InFile(logFiles, LastLogFile) \o LogText'
        BY <1>2, <2>1, <3>1, TextUnlinked DEF LogText
    <3>3. LogText' \in Seq(Nat) BY <3>2, TextIsText DEF LogText
    <3>4. InFile(logFiles, LastLogFile) \in Seq(Nat) BY <1>2, FilesHoldText
    <3>5. LogTextKept
      <4>1. CASE LastLogFile \in DOMAIN logFiles BY <3>2, <4>1 DEF LogTextKept, InFile
      <4>2. CASE LastLogFile \notin DOMAIN logFiles
        <5>1. InFile(logFiles, LastLogFile) = <<>> BY <4>2 DEF InFile
        <5>2. LogText' = LogText BY <3>2, <3>3, <5>1, ConcatEmptySeq
        <5> QED BY <1>2, <5>2, TextUnchanged
      <4> QED BY <4>1, <4>2
    <3>6. PICK last : last = InFile(logFiles, LastLogFile) OBVIOUS
    <3>7. \A p, r, t \in Seq(Nat) : (p \o r) \o t = p \o (r \o t) BY MessagesAssociate
    <3>8. written = (lost \o last) \o LogText' BY <1>3, <3>2, <3>3, <3>4, <3>6, <3>7
    <3>9. lost \o last \in Seq(Nat) BY <3>4, <3>6, ConcatProperties
    <3> QED BY <3>2, <3>5, <3>8, <3>9
  <2>2. CASE shift # LastLogFile
    <3>1. shift \in 0 .. LastLogFile - 1 /\ shift + 1 \notin DOMAIN logFiles
        BY <1>1, <1>2, <2>2 DEF LogShifts
    <3>2. logFiles' = Moved(logFiles, shift) BY <1>1, <2>2 DEF Shifted
    <3>3. logFiles' \in AllFiles /\ shift \notin DOMAIN logFiles' /\ LogText' = LogText
        BY <1>2, <3>1, <3>2, TextMoved DEF LogText
    <3> QED BY <1>2, <1>3, <3>3, TextUnchanged
  <2> QED BY <2>1, <2>2
<1>6. LogTyped' BY <1>1, <1>2, <1>5 DEF LogTyped
<1>7. LogShifts'
  <2>1. shift' + 1 = shift BY <1>1, <1>2
  <2> QED BY <1>1, <1>5, <2>1 DEF LogShifts
<1>8. LogOrder' BY <1>1 DEF LogOrder
<1>9. LogEndsWritten' BY <1>1, <1>5 DEF LogEndsWritten
<1>10. LogNoticed' BY <1>1 DEF LogNoticed
<1> QED BY <1>5, <1>6, <1>7, <1>8, <1>9, <1>10

LEMMA CreatKeeps == LogInv /\ RotateEnds => LogInv' /\ LogTextKept
<1> SUFFICES ASSUME LogInv, RotateEnds PROVE LogInv' /\ LogTextKept OBVIOUS
<1> USE DEF LogInv
<1>1. /\ logThread \in {"init", "rotating"} /\ shift = -1 /\ shift' = LastLogFile
      /\ logFiles' = [k \in DOMAIN logFiles \cup {0} |-> IF k = 0 THEN <<>> ELSE logFiles[k]]
      /\ LogMsgQueue' = LogMsgQueue /\ hLogMsgEvent' = hLogMsgEvent /\ logThread' = "waiting"
      /\ logNr' = logNr /\ written' = written
    BY DEF RotateEnds
<1>2. LastLogFile \in Nat /\ LastLogFile # 0 /\ logFiles \in AllFiles /\ <<>> \in Seq(Nat)
    BY LogAssumption, EmptySeq DEF LogTyped
<1>3. 0 \notin DOMAIN logFiles
  <2>1. shift < LastLogFile /\ shift + 1 = 0 BY <1>1, <1>2
  <2> QED BY <1>1, <2>1 DEF LogShifts
<1>4. PICK D \in SUBSET (0 .. LastLogFile) : logFiles \in [D -> Seq(Nat)] BY <1>2 DEF AllFiles
<1>5. D \cup {0} \in SUBSET (0 .. LastLogFile) /\ logFiles' \in [D \cup {0} -> Seq(Nat)]
    BY <1>1, <1>2, <1>4
<1>6. logFiles' \in AllFiles BY <1>5, FilesAre
<1>7. \A k : InFile(logFiles', k) = InFile(logFiles, k)
    BY <1>1, <1>3, <1>4, <1>5 DEF InFile
<1>8. LogText' = LogText BY <1>2, <1>6, <1>7, TextSame DEF LogText
<1>9. LogTyped' BY <1>1, <1>2, <1>6 DEF LogTyped
<1>10. LogShifts' BY <1>1, <1>5 DEF LogShifts
<1>11. LogOrder' BY <1>1 DEF LogOrder
<1>12. LogEndsWritten' BY <1>1, <1>8 DEF LogEndsWritten
<1>13. LogNoticed' BY <1>1 DEF LogNoticed
<1> QED BY <1>2, <1>8, <1>9, <1>10, <1>11, <1>12, <1>13, TextUnchanged

LEMMA LogStep == LogInv /\ [LogNext]_logVars => LogInv' /\ LogTextKept
<1> SUFFICES ASSUME LogInv, [LogNext]_logVars PROVE LogInv' /\ LogTextKept OBVIOUS
<1> USE DEF LogInv
<1>1. logFiles \in AllFiles /\ hLogMsgEvent \in Nat /\ <<>> \in Seq(Nat) /\ LastLogFile \in Nat
    BY LogAssumption, EmptySeq DEF LogTyped
<1>2. CASE RotateStep BY <1>2, RotateKeeps
<1>3. CASE RotateEnds BY <1>3, CreatKeeps
<1>4. CASE LogMessage BY <1>1, <1>4, MessageKeeps, TextUnchanged
<1>5. CASE WriteLogMsg BY <1>5, WriteKeeps
<1>6. ASSUME logFiles' = logFiles, written' = written
      PROVE  LogTextKept /\ (LogEndsWritten => LogEndsWritten')
  <2>1. LogText' = LogText BY <1>6 DEF LogText
  <2> QED BY <1>1, <1>6, <2>1, TextUnchanged DEF LogEndsWritten
<1>7. CASE LogThreadWakes
    BY <1>6, <1>7 DEF LogThreadWakes, LogTyped, LogShifts, LogOrder, LogNoticed
<1>8. CASE LogDrained
    BY <1>6, <1>8 DEF LogDrained, LogTyped, LogShifts, LogOrder, LogNoticed
<1>9. CASE CheckLogRotation
  <2>1. logThread' \in {"rotating", "waiting"} /\ logThread = "checking"
        /\ shift' = shift /\ logFiles' = logFiles /\ LogMsgQueue' = LogMsgQueue
        /\ hLogMsgEvent' = hLogMsgEvent /\ logNr' = logNr /\ written' = written
      BY <1>9 DEF CheckLogRotation
  <2> QED BY <1>1, <1>6, <2>1 DEF LogTyped, LogShifts, LogOrder, LogNoticed
<1>10. CASE RestartLog
  <2>1. /\ logThread' = "init" /\ shift' = LastLogFile /\ logFiles' = logFiles
        /\ LogMsgQueue' = <<>> /\ hLogMsgEvent' = 0 /\ logNr' = logNr /\ written' = written
      BY <1>10 DEF RestartLog
  <2>2. Len(LogMsgQueue') = 0 BY <2>1
  <2>3. LogTyped' /\ LogShifts' /\ LogNoticed' BY <1>1, <2>1 DEF LogTyped, LogShifts, LogNoticed
  <2>4. LogOrder' BY <2>1, <2>2 DEF LogOrder
  <2> QED BY <1>6, <2>1, <2>3, <2>4
<1>11. CASE UNCHANGED logVars
    BY <1>6, <1>11 DEF logVars, LogTyped, LogShifts, LogOrder, LogNoticed
<1> QED BY <1>2, <1>3, <1>4, <1>5, <1>7, <1>8, <1>9, <1>10, <1>11 DEF LogNext

LEMMA LogInvariant == Spec => []LogInv
<1>1. Init => LogInv BY LogStarts DEF Init
<1>2. [Next]_vars => [LogNext]_logVars
    BY DEF Next, vars, TimersRun, WorkQueueRuns, LogRuns, EventsRun, StoreRuns, GpioRuns
<1>3. LogInv /\ [Next]_vars => LogInv' BY <1>2, LogStep
<1> QED BY <1>1, <1>3, PTL DEF Spec

\* RotateLogFiles, WriteLogMsgToFile: whenever the program is killed, the files
\* hold the newest messages written, in order and without a gap, no step loses
\* any but the last file's, and the thread never waits for a message with one
\* in the queue, unless a post is there to wake it.
THEOREM LogIsKept == Spec => LogKeepsNewest
<1> DEFINE Newest == /\ IsSuffix(LogText, written)
                     /\ \A i, j \in DOMAIN written : i < j => written[i] < written[j]
                     /\ LogNoticed
<1>1. LogInv => Newest
  <2> SUFFICES ASSUME LogInv PROVE Newest OBVIOUS
  <2>1. PICK lost \in Seq(Nat) : written = lost \o LogText BY DEF LogInv, LogEndsWritten
  <2>2. LogText \in Seq(Nat) BY TextIsText DEF LogText, LogInv, LogTyped
  <2>3. IsSuffix(LogText, written) BY <2>1, <2>2, SuffixOfConcat
  <2>4. DOMAIN written = 1 .. Len(written) BY LenProperties DEF LogInv, LogTyped
  <2> QED BY <2>3, <2>4 DEF LogInv, LogOrder
<1>2. [Next]_vars => [LogNext]_logVars
    BY DEF Next, vars, TimersRun, WorkQueueRuns, LogRuns, EventsRun, StoreRuns, GpioRuns
<1>3. LogInv /\ [Next]_vars => [LogTextKept]_logVars BY <1>2, LogStep
<1>4. Spec => []Newest
  <2> HIDE DEF Newest
  <2> QED BY <1>1, LogInvariant, PTL
<1>5. Spec => [][LogTextKept]_logVars BY <1>3, LogInvariant, PTL DEF Spec
<1> QED BY <1>4, <1>5 DEF LogKeepsNewest, LogTextKept
=============================================================================
