----------------------------- MODULE DataStore -----------------------------
(***************************************************************************)
(* The data store (src/DataStore): each DataId is a file.  Threads write,   *)
(* read and purge one DataId; the file system is what POSIX says of stat,   *)
(* creat, write, open, fstat, read and unlink, each of them one step.       *)
(*                                                                          *)
(* Data is a sequence of blocks, each the name of the data it is part of.   *)
(***************************************************************************)
EXTENDS Naturals, SequencesExt

CONSTANTS
    DataLength,  \* per data that is written, its number of blocks
    Writers,     \* the threads that write
    MaxWrites,   \* the calls to write that are made
    MaxPurges,
    MaxWriteFaults \* the writes that fail or fall short, and the crashes

\* "none" and "error" are what a read returns without data.
ASSUME DataAssumption == /\ DataLength \in [DOMAIN DataLength -> Nat]
                         /\ {"none", "error"} \cap DOMAIN DataLength = {}

VARIABLES
    dir,       \* the inode of the DataId: <<inode>>, or <<>> when it does not exist
    inodes,    \* the contents of the inodes, by number
    writer,    \* per writer the call it makes:
              \* [pc, data, overwrite, exists, inode, alone]
    reader,    \* of the one reader: [pc, inode, size, quiet, result]
    MemoryTracking, \* whether the buffer the reader was given is tracked
    expected,  \* history: <<data>> the file must hold, <<"none">>, or <<>> for unknown
    writes, purges, writeFaults

storeVars == <<dir, inodes, writer, reader, MemoryTracking, expected, writes, purges, writeFaults>>

NoWrite == [pc |-> "idle", data |-> "none", overwrite |-> FALSE, exists |-> FALSE, inode |-> 0,
            alone |-> FALSE]
NoRead == [pc |-> "idle", inode |-> 0, size |-> 0, quiet |-> FALSE, result |-> <<>>]

StoreInit ==
    /\ dir = <<>> /\ inodes = <<>>
    /\ writer = [w \in Writers |-> NoWrite] /\ reader = NoRead
    /\ MemoryTracking = FALSE /\ expected = <<"none">>
    /\ writes = 0 /\ purges = 0 /\ writeFaults = 0

Blocks(data) == [k \in 1 .. DataLength[data] |-> data]
Busy == \E w \in Writers : writer[w].pc # "idle"
\* A call that another one overlaps is not alone.
Overlapped == [w \in Writers |-> [writer[w] EXCEPT !.alone = FALSE]]

Done(w, known) == /\ writer' = [writer EXCEPT ![w] = NoWrite]
                  /\ expected' = known

\* DataStoreWriteData, up to the stat.  Whoever overlaps this call is not quiet.
WriteBegins ==
    /\ writes < MaxWrites
    /\ \E w \in Writers, data \in DOMAIN DataLength, overwrite \in BOOLEAN :
          /\ writer[w].pc = "idle"
          /\ writer' = [Overlapped EXCEPT ![w] =
                            [pc |-> "stat", data |-> data, inode |-> 0, alone |-> ~Busy,
                             overwrite |-> overwrite, exists |-> dir # <<>>]]
          /\ expected' = IF Busy THEN <<>> ELSE expected
    /\ writes' = writes + 1
    /\ reader' = [reader EXCEPT !.quiet = FALSE]
    /\ UNCHANGED <<dir, inodes, MemoryTracking, purges, writeFaults>>

\* DsAlreadyExists
WriteRefused(w) ==
    /\ writer[w].pc = "stat" /\ writer[w].exists /\ ~writer[w].overwrite
    /\ Done(w, expected)
    /\ UNCHANGED <<dir, inodes, reader, MemoryTracking, writes, purges, writeFaults>>

\* creat truncates a file that exists.
CreatUntruncated(w) ==  \* Fault: open without O_TRUNC.
    /\ IF dir = <<>> THEN inodes' = Append(inodes, <<>>) /\ dir' = <<Len(inodes')>>
                     ELSE UNCHANGED <<inodes, dir>>
    /\ writer' = [writer EXCEPT ![w].pc = "created", ![w].inode = dir'[1]]
Creat(w) ==
    /\ IF dir = <<>> THEN inodes' = Append(inodes, <<>>) /\ dir' = <<Len(inodes')>>
                     ELSE inodes' = [inodes EXCEPT ![dir[1]] = <<>>] /\ UNCHANGED dir
    /\ writer' = [writer EXCEPT ![w].pc = "created", ![w].inode = dir'[1]]

WriteCreates(w) ==
    /\ writer[w].pc = "stat" /\ (writer[w].exists => writer[w].overwrite)
    /\ Creat(w)
    /\ UNCHANGED <<reader, MemoryTracking, expected, writes, purges, writeFaults>>

\* DsIoError: creat fails, and nothing has changed.
CreatFails(w) ==
    /\ writer[w].pc = "stat" /\ (writer[w].exists => writer[w].overwrite)
    /\ writeFaults < MaxWriteFaults
    /\ writeFaults' = writeFaults + 1
    /\ Done(w, expected)
    /\ UNCHANGED <<dir, inodes, reader, MemoryTracking, writes, purges>>

\* The first blocks of an inode are written; what is behind them stays.
Overwritten(inode, blocks) ==
    inodes' = [inodes EXCEPT ![inode] = blocks \o SubSeq(@, Len(blocks) + 1, Len(@))]

WriteSucceeds(w) ==
    /\ writer[w].pc = "created"
    /\ Overwritten(writer[w].inode, Blocks(writer[w].data))
    /\ Done(w, IF writer[w].alone THEN <<writer[w].data>> ELSE <<>>)
    /\ UNCHANGED <<dir, reader, MemoryTracking, writes, purges, writeFaults>>

\* DsIoError: no block, or fewer than there are, were written.
WriteFallsShort(w) ==
    /\ writer[w].pc = "created" /\ writeFaults < MaxWriteFaults
    /\ writeFaults' = writeFaults + 1
    /\ \E n \in 0 .. DataLength[writer[w].data] - 1 :
          Overwritten(writer[w].inode, SubSeq(Blocks(writer[w].data), 1, n))
    /\ Done(w, <<>>)
    /\ UNCHANGED <<dir, reader, MemoryTracking, writes, purges>>

\* DataStorePurgeData: unlink, by any thread.
Purge ==
    /\ purges < MaxPurges
    /\ purges' = purges + 1
    /\ dir' = <<>>
    /\ expected' = IF Busy THEN <<>> ELSE <<"none">>
    /\ reader' = [reader EXCEPT !.quiet = FALSE] /\ writer' = Overlapped
    /\ UNCHANGED <<inodes, MemoryTracking, writes, writeFaults>>

\* DataStoreReadData: open, or DsDataDoesNotExist.
ReadOpens ==
    /\ reader.pc = "idle"
    /\ reader' = IF dir = <<>>
                 THEN [NoRead EXCEPT !.pc = "returned", !.quiet = ~Busy, !.result = <<"none">>]
                 ELSE [NoRead EXCEPT !.pc = "opened", !.quiet = ~Busy, !.inode = dir[1]]
    /\ UNCHANGED <<dir, inodes, writer, MemoryTracking, expected, writes, purges, writeFaults>>

\* fstat, and a buffer of that size.
ReadSizes ==
    /\ reader.pc = "opened"
    /\ reader' = [reader EXCEPT !.pc = "sized", !.size = Len(inodes[reader.inode])]
    /\ UNCHANGED <<dir, inodes, writer, MemoryTracking, expected, writes, purges, writeFaults>>

\* read: the buffer is filled, returned and tracked, or DsIoError.
ReadReads ==
    LET blocks == inodes[reader.inode] IN
    /\ reader.pc = "sized"
    /\ IF Len(blocks) < reader.size
       THEN /\ reader' = [reader EXCEPT !.pc = "returned", !.result = <<"error">>]
            /\ UNCHANGED MemoryTracking
       ELSE /\ reader' = [reader EXCEPT !.pc = "returned", !.result = SubSeq(blocks, 1, reader.size)]
            /\ MemoryTracking' = TRUE
    /\ UNCHANGED <<dir, inodes, writer, expected, writes, purges, writeFaults>>

\* The reader is done, and frees the buffer if it has one: DataStoreFreeData.
ReadDone ==
    /\ reader.pc = "returned"
    /\ reader' = NoRead /\ MemoryTracking' = FALSE
    /\ UNCHANGED <<dir, inodes, writer, expected, writes, purges, writeFaults>>

\* The program is killed; the files stay as they are.
StoreCrash ==
    /\ writeFaults < MaxWriteFaults /\ (Busy \/ reader.pc # "idle")
    /\ writeFaults' = writeFaults + 1
    /\ expected' = IF Busy THEN <<>> ELSE expected
    /\ writer' = [w \in Writers |-> NoWrite] /\ reader' = NoRead /\ MemoryTracking' = FALSE
    /\ UNCHANGED <<dir, inodes, writes, purges>>

StoreNext ==
    \/ WriteBegins \/ Purge \/ ReadOpens \/ ReadSizes \/ ReadReads \/ ReadDone \/ StoreCrash
    \/ \E w \in Writers : WriteRefused(w) \/ WriteCreates(w) \/ CreatFails(w)
                           \/ WriteSucceeds(w) \/ WriteFallsShort(w)

\* DataStoreReadData after DataStoreWriteData or DataStorePurgeData: a read
\* that no call overlaps returns the whole data of the last call that
\* succeeded, if none overlapped that one; no buffer is left tracked.
LastWriteRead ==
    /\ reader.pc = "returned" /\ reader.quiet /\ expected # <<>> =>
          reader.result = IF expected[1] = "none" THEN <<"none">> ELSE Blocks(expected[1])
    /\ MemoryTracking => reader.pc = "returned" /\ reader.result \notin {<<"none">>, <<"error">>}
=============================================================================
