------------------------- MODULE AppendOnlyFileProof -------------------------
(***************************************************************************)
(* Theorems about the append only file, for every fsync mode, every buffer *)
(* and chunk size, every number of commands, crashes and power failures.   *)
(***************************************************************************)
EXTENDS AppendOnlyFile, SequenceTheorems, TLAPS

(***************************************************************************)
(* LogMatchesMemory, command by command.                                   *)
(***************************************************************************)
Matches ==
    /\ Len(mem) = Len(file) + Len(buffer)
    /\ \A i \in 1..Len(file) : mem[i].cmd = file[i]
    /\ \A i \in 1..Len(buffer) : mem[Len(file) + i].cmd = buffer[i]

(***************************************************************************)
(* While the server is down the file still is a prefix of what the         *)
(* databases held.                                                         *)
(***************************************************************************)
FileInMemory ==
    /\ Len(file) <= Len(mem)
    /\ \A i \in 1..Len(file) : mem[i].cmd = file[i]

(***************************************************************************)
(* The inductive invariant.  A flush empties the buffer before it syncs,   *)
(* so nothing is buffered outside a callback in mode "always", and what    *)
(* was answered then was synced.                                           *)
(***************************************************************************)
IInv ==
    /\ TypeOK
    /\ stage # "down" /\ ~misread => Matches
    /\ stage = "down" /\ ~misread => FileInMemory
    /\ stage \in {"down", "closed", "sync"} => buffer = <<>>
    /\ mode = "always" /\ stage = "idle" => buffer = <<>>
    /\ mode = "always" /\ ~misread => answered <= synced

-----------------------------------------------------------------------------
(***************************************************************************)
(* Types.                                                                  *)
(***************************************************************************)

(***************************************************************************)
(* Part of the file is a sequence of commands.                             *)
(***************************************************************************)
LEMMA PartType ==
    ASSUME TypeOK, NEW m \in Nat \ {0}, NEW n \in 0..Len(file)
    PROVE  SubSeq(file, m, n) \in Seq(Write \cup {Garbage})
<1>1. \A i \in m..n : file[i] \in Write \cup {Garbage}
  BY ElementOfSeq DEF TypeOK
<1>2. QED
  BY <1>1, SubSeqProperties DEF TypeOK

(***************************************************************************)
(* Whatever recovery reads is a sequence of commands.                      *)
(***************************************************************************)
LEMMA ReadableType ==
    ASSUME TypeOK, NEW commands \in Readable
    PROVE  commands \in Seq(Write \cup {Garbage})
<1>1. file \in Seq(Write \cup {Garbage}) /\ Len(file) \in Nat
  BY DEF TypeOK
<1>2. CASE ~Damaged
  BY <1>1, <1>2 DEF Readable
<1>3. CASE Damaged
  <2>1. torn \in 0..Len(file)
    BY <1>3 DEF TypeOK, Damaged
  <2>2. EarlierChunks \in Seq(Write \cup {Garbage})
    <3> DEFINE last == (torn \div ChunkRecords) * ChunkRecords
    <3>1. last \in 0..Len(file)
      BY <2>1, AppendOnlyFileAssumption, SMT
    <3> HIDE DEF last
    <3>2. SubSeq(file, 1, last) \in Seq(Write \cup {Garbage})
      BY <3>1, PartType
    <3>3. QED
      BY <3>2 DEF last, EarlierChunks
  <2>3. ASSUME NEW n \in 1..(Len(file) - torn), NEW ran \in {<<>>, <<Garbage>>}
        PROVE  Swallowing(n, ran) \in Seq(Write \cup {Garbage})
    <3>1. SubSeq(file, 1, torn) \in Seq(Write \cup {Garbage})
      BY <2>1, PartType
    <3>2. SubSeq(file, torn + n + 1, Len(file)) \in Seq(Write \cup {Garbage})
      BY <1>1, <2>1, PartType
    <3>3. ran \in Seq(Write \cup {Garbage})
      <4>1. Garbage \in Write \cup {Garbage}
        OBVIOUS
      <4>2. <<Garbage>> \in Seq(Write \cup {Garbage})
        BY <4>1
      <4>3. <<>> \in Seq(Write \cup {Garbage})
        BY EmptySeq
      <4>4. QED
        BY <4>2, <4>3
    <3>4. SubSeq(file, 1, torn) \o ran \in Seq(Write \cup {Garbage})
      BY <3>1, <3>3, ConcatProperties
    <3>5. QED
      BY <3>2, <3>4, ConcatProperties DEF Swallowing
  <2>4. \/ commands = EarlierChunks
        \/ \E n \in 1..(Len(file) - torn), ran \in {<<>>, <<Garbage>>} :
              commands = Swallowing(n, ran)
    BY <1>3 DEF Readable
  <2>5. QED
    BY <2>2, <2>3, <2>4
<1>4. QED
  BY <1>2, <1>3

-----------------------------------------------------------------------------
(***************************************************************************)
(* Each action keeps the types.                                            *)
(***************************************************************************)
LEMMA InitType == Init => TypeOK
<1>1. <<>> \in Seq(Write) /\ <<>> \in Seq(Effect) /\ Len(<<>>) = 0
  BY EmptySeq
<1> SUFFICES ASSUME Init PROVE TypeOK
  OBVIOUS
<1>2. /\ synced \in 0..Len(file) /\ answered \in 0..Len(mem) /\ woken \in Nat
      /\ mem \in Seq(Effect) /\ buffer \in Seq(Write) /\ file \in Seq(Write)
  BY <1>1 DEF Init
<1>3. QED
  BY <1>2 DEF Init, TypeOK

(***************************************************************************)
(* A restart makes effects of what it reads.                               *)
(***************************************************************************)
LEMMA StartType == ASSUME TypeOK, Start PROVE TypeOK'
<1>1. PICK commands \in Readable :
         /\ mem' = [i \in 1..Len(commands) |-> [db |-> 0, cmd |-> commands[i]]]
         /\ answered' = IF answered <= Len(commands) THEN answered ELSE Len(commands)
  BY DEF Start
<1>2. commands \in Seq(Write \cup {Garbage}) /\ Len(commands) \in Nat
  BY ReadableType
<1>3. \A i \in 1..Len(commands) : [db |-> 0, cmd |-> commands[i]] \in Effect
  BY <1>2, AppendOnlyFileAssumption, ElementOfSeq DEF Effect
<1>4. mem' \in Seq(Effect) /\ Len(mem') = Len(commands)
  BY <1>1, <1>2, <1>3
<1>5. answered' \in 0..Len(mem')
  BY <1>1, <1>2, <1>4 DEF TypeOK
<1>6. QED
  BY <1>4, <1>5, EmptySeq DEF Start, TypeOK, Damaged

(***************************************************************************)
(* Executing a command, whether a flush follows or not.                    *)
(***************************************************************************)
LEMMA DispatchType ==
    ASSUME TypeOK, NEW d \in DB, NEW cmd \in Write, Dispatch(d, cmd)
    PROVE  TypeOK'
<1>1. [db |-> d, cmd |-> cmd] \in Effect
  BY DEF Effect
<1>2. /\ mem' \in Seq(Effect) /\ Len(mem') = Len(mem) + 1
      /\ buffer' \in Seq(Write)
  BY <1>1, AppendProperties DEF Dispatch, TypeOK
<1>3. answered' \in 0..Len(mem')
  BY <1>2 DEF Dispatch, TypeOK, Flush
<1>4. QED
  BY <1>2, <1>3 DEF Dispatch, TypeOK, Flush

(***************************************************************************)
(* The rest of a callback.                                                 *)
(***************************************************************************)
LEMMA ContinueType ==
    ASSUME TypeOK, Continue, mem' = mem
    PROVE  /\ stage' \in {"closed", "idle"}
           /\ forced' = forced /\ stopping' = stopping
           /\ answered' \in 0..Len(mem')
BY DEF Continue, TypeOK

(***************************************************************************)
(* Writing the buffer to the file.                                         *)
(***************************************************************************)
LEMMA WriteBufferType == ASSUME TypeOK, WriteBuffer PROVE TypeOK'
<1>1. file' \in Seq(Write) /\ Len(file') = Len(file) + Len(buffer) /\ Len(buffer) \in Nat
  BY ConcatProperties DEF TypeOK, WriteBuffer
<1>2. /\ stage' \in {"sync", "closed", "idle"}
      /\ forced' = forced /\ stopping' = stopping
      /\ answered' \in 0..Len(mem')
  BY ContinueType DEF TypeOK, WriteBuffer
<1>3. QED
  BY <1>1, <1>2, EmptySeq DEF TypeOK, WriteBuffer

(***************************************************************************)
(* The actions that leave the log alone.                                   *)
(***************************************************************************)
LEMMA OtherType ==
    ASSUME TypeOK, Sync \/ PeriodicFsync \/ Shutdown \/ Crash
    PROVE  TypeOK'
<1>1. CASE Sync
  BY <1>1, ContinueType DEF TypeOK, Sync
<1>2. CASE PeriodicFsync
  <2>1. Len(mem) \in Nat
    BY DEF TypeOK
  <2>2. QED
    BY <1>2, <2>1 DEF TypeOK, PeriodicFsync, Flush
<1>3. CASE Shutdown
  BY <1>3 DEF TypeOK, Shutdown, Flush, history
<1>4. CASE Crash
  BY <1>4, EmptySeq DEF TypeOK, Crash, GoDown, history
<1>5. QED
  BY <1>1, <1>2, <1>3, <1>4

(***************************************************************************)
(* What is left of the file when the power fails.                          *)
(***************************************************************************)
LEMMA FileLeft ==
    ASSUME TypeOK, PowerFailure
    PROVE  \E kept \in synced..Len(file) :
              /\ file' \in Seq(Write)
              /\ Len(file') = kept /\ synced' = kept
              /\ \A i \in 1..kept : file'[i] = file[i]
              /\ torn' \in {torn, kept}
<1>1. PICK kept \in synced..Len(file) :
         file' = SubSeq(file, 1, kept) /\ torn' \in {torn, kept}
  BY DEF PowerFailure
<1>2. kept \in 0..Len(file) /\ \A i \in 1..kept : file[i] \in Write
  BY ElementOfSeq DEF TypeOK
<1>3. /\ SubSeq(file, 1, kept) \in Seq(Write)
      /\ Len(SubSeq(file, 1, kept)) = IF 1 <= kept THEN kept - 1 + 1 ELSE 0
      /\ \A i \in 1..(kept - 1 + 1) : SubSeq(file, 1, kept)[i] = file[1 + i - 1]
  BY <1>2, SubSeqProperties
<1>4. Len(file') = kept /\ \A i \in 1..kept : file'[i] = file[i]
  BY <1>1, <1>2, <1>3
<1>5. QED
  BY <1>1, <1>3, <1>4 DEF PowerFailure

(***************************************************************************)
(* A power failure keeps the types.                                        *)
(***************************************************************************)
LEMMA PowerFailureType == ASSUME TypeOK, PowerFailure PROVE TypeOK'
<1>1. PICK kept \in synced..Len(file) :
         /\ file' \in Seq(Write)
         /\ Len(file') = kept /\ synced' = kept
         /\ torn' \in {torn, kept}
  BY FileLeft
<1>2. /\ stage' = "down" /\ forced' = FALSE /\ stopping' = FALSE
      /\ buffer' = <<>> /\ mode' = mode /\ mem' = mem
      /\ answered' = answered /\ woken' = woken /\ misread' = misread
  BY DEF PowerFailure, GoDown, history
<1>3. synced' \in 0..Len(file') /\ torn' \in 0..synced' \cup {Nowhere}
  BY <1>1 DEF TypeOK
<1>4. QED
  BY <1>1, <1>2, <1>3, EmptySeq DEF TypeOK

(***************************************************************************)
(* Every step keeps the types.                                             *)
(***************************************************************************)
LEMMA StepType == TypeOK /\ [Next]_vars => TypeOK'
<1> SUFFICES ASSUME TypeOK, [Next]_vars PROVE TypeOK'
  OBVIOUS
<1>1. CASE Start
  BY <1>1, StartType
<1>2. ASSUME NEW d \in DB, NEW cmd \in Write, Dispatch(d, cmd) PROVE TypeOK'
  BY <1>2, DispatchType
<1>3. CASE WriteBuffer
  BY <1>3, WriteBufferType
<1>4. CASE Sync \/ PeriodicFsync \/ Shutdown \/ Crash
  BY <1>4, OtherType
<1>5. CASE PowerFailure
  BY <1>5, PowerFailureType
<1>6. CASE UNCHANGED vars
  BY <1>6 DEF vars, history, TypeOK
<1>7. QED
  BY <1>1, <1>2, <1>3, <1>4, <1>5, <1>6 DEF Next

(***************************************************************************)
(* The log, its buffer and the databases have their types in every state,  *)
(* and no torn command stands among commands that are not synced.          *)
(***************************************************************************)
THEOREM TypeCorrect == Spec => []TypeOK
BY InitType, StepType, PTL DEF Spec

-----------------------------------------------------------------------------
(***************************************************************************)
(* The inductive invariant.                                                *)
(***************************************************************************)

(***************************************************************************)
(* Matches is LogMatchesMemory said pointwise.                             *)
(***************************************************************************)
LEMMA MatchesMeans ==
    ASSUME TypeOK, Matches
    PROVE  Commands(mem) = file \o buffer
<1> DEFINE log == file \o buffer
<1>1. /\ log \in Seq(Write)
      /\ Len(log) = Len(file) + Len(buffer)
      /\ \A i \in 1..(Len(file) + Len(buffer)) :
            log[i] = IF i <= Len(file) THEN file[i] ELSE buffer[i - Len(file)]
  BY ConcatProperties DEF TypeOK
<1> HIDE DEF log
<1>2. Len(mem) \in Nat /\ Len(file) \in Nat /\ Len(buffer) \in Nat
  BY DEF TypeOK
<1>3. ASSUME NEW i \in 1..Len(mem) PROVE mem[i].cmd = log[i]
  <2>1. CASE i <= Len(file)
    BY <1>1, <1>2, <2>1 DEF Matches
  <2>2. CASE ~(i <= Len(file))
    <3>1. i - Len(file) \in 1..Len(buffer) /\ Len(file) + (i - Len(file)) = i
      BY <1>2, <2>2 DEF Matches
    <3>2. mem[i].cmd = buffer[i - Len(file)]
      BY <3>1 DEF Matches
    <3>3. log[i] = buffer[i - Len(file)]
      BY <1>1, <1>2, <2>2 DEF Matches
    <3>4. QED
      BY <3>2, <3>3
  <2>3. QED
    BY <2>1, <2>2
<1>4. log = [i \in 1..Len(mem) |-> log[i]]
  BY <1>1, LenProperties DEF Matches
<1>5. QED
  BY <1>3, <1>4 DEF Commands, log

(***************************************************************************)
(* An unread, undamaged file is what a restart reads.                      *)
(***************************************************************************)
LEMMA StartReads ==
    ASSUME TypeOK, Start, ~Damaged
    PROVE  /\ Len(mem') = Len(file)
           /\ \A i \in 1..Len(file) : mem'[i].cmd = file[i]
           /\ answered' <= answered
<1>1. /\ mem' = [i \in 1..Len(file) |-> [db |-> 0, cmd |-> file[i]]]
      /\ answered' = IF answered <= Len(file) THEN answered ELSE Len(file)
  BY DEF Start, Readable
<1>2. Len(file) \in Nat
  BY DEF TypeOK
<1>3. QED
  BY <1>1, <1>2 DEF TypeOK

(***************************************************************************)
(* The invariant holds before the first start.                             *)
(***************************************************************************)
LEMMA InitInductive == Init => IInv
<1> SUFFICES ASSUME Init PROVE IInv
  OBVIOUS
<1>1. TypeOK
  BY InitType
<1>2. Len(<<>>) = 0
  BY EmptySeq
<1>3. Matches
  BY <1>2 DEF Init, Matches
<1>4. QED
  BY <1>1, <1>3 DEF Init, IInv

(***************************************************************************)
(* A restart: the buffer is empty and the databases are the file.          *)
(***************************************************************************)
LEMMA StartInductive == ASSUME IInv, Start PROVE IInv'
<1>1. TypeOK /\ TypeOK'
  BY StartType DEF IInv
<1>2. /\ stage' = "idle" /\ buffer' = <<>> /\ file' = file /\ synced' = synced
      /\ mode' = mode
      /\ misread' = (misread \/ Damaged)
  BY DEF Start
<1>3. ASSUME ~misread' PROVE Matches' /\ answered' <= answered /\ ~misread
  <2>1. ~Damaged /\ ~misread
    BY <1>2, <1>3
  <2>2. Len(buffer') = 0 /\ Len(file) \in Nat
    BY <1>1, <1>2, EmptySeq DEF TypeOK
  <2>3. QED
    BY <1>1, <1>2, <2>1, <2>2, StartReads DEF Matches
<1>4. mode = "always" /\ ~misread' => answered' <= synced'
  BY <1>1, <1>2, <1>3 DEF IInv, TypeOK
<1>5. QED
  BY <1>1, <1>2, <1>3, <1>4 DEF IInv

(***************************************************************************)
(* Executing a command adds it to the databases and to the buffer.         *)
(***************************************************************************)
LEMMA DispatchInductive ==
    ASSUME IInv, NEW d \in DB, NEW cmd \in Write, Dispatch(d, cmd)
    PROVE  IInv'
<1>1. TypeOK /\ TypeOK'
  BY DispatchType DEF IInv
<1>2. /\ mode' = mode /\ file' = file /\ synced' = synced /\ misread' = misread
      /\ stage = "idle" /\ stage' \in {"idle", "write"}
      /\ mode = "always" => stage' = "write" /\ answered' = answered
      /\ mem' = Append(mem, [db |-> d, cmd |-> cmd])
      /\ buffer' = Append(buffer, cmd)
  BY DEF Dispatch, Flush
<1>3. ASSUME ~misread PROVE Matches'
  <2>1. Matches
    BY <1>2, <1>3 DEF IInv
  <2>2. /\ Len(mem) \in Nat /\ Len(buffer) \in Nat /\ Len(file) \in Nat
        /\ Len(mem') = Len(mem) + 1 /\ Len(buffer') = Len(buffer) + 1
    BY <1>1, <1>2 DEF TypeOK
  <2>3. /\ \A i \in 1..Len(mem) : mem'[i] = mem[i]
        /\ mem'[Len(mem) + 1] = [db |-> d, cmd |-> cmd]
    BY <1>1, <1>2 DEF TypeOK
  <2>4. /\ \A i \in 1..Len(buffer) : buffer'[i] = buffer[i]
        /\ buffer'[Len(buffer) + 1] = cmd
    BY <1>1, <1>2 DEF TypeOK
  <2>5. \A i \in 1..Len(file) : mem'[i].cmd = file[i]
    BY <2>1, <2>2, <2>3 DEF Matches
  <2>6. ASSUME NEW i \in 1..Len(buffer') PROVE mem'[Len(file) + i].cmd = buffer'[i]
    <3>1. CASE i <= Len(buffer)
      BY <2>1, <2>2, <2>3, <2>4, <3>1 DEF Matches
    <3>2. CASE i = Len(buffer) + 1
      BY <2>1, <2>2, <2>3, <2>4, <3>2 DEF Matches
    <3>3. QED
      BY <2>2, <3>1, <3>2
  <2>7. Len(mem') = Len(file) + Len(buffer')
    BY <2>1, <2>2 DEF Matches
  <2>8. QED
    BY <1>2, <2>5, <2>6, <2>7 DEF Matches
<1>4. QED
  BY <1>1, <1>2, <1>3 DEF IInv

(***************************************************************************)
(* Writing moves the buffer to the end of the file.                        *)
(***************************************************************************)
LEMMA WriteBufferInductive == ASSUME IInv, WriteBuffer PROVE IInv'
<1>1. TypeOK /\ TypeOK'
  BY WriteBufferType DEF IInv
<1>2. /\ mode' = mode /\ mem' = mem /\ synced' = synced /\ misread' = misread
      /\ stage = "write" /\ buffer' = <<>> /\ file' = file \o buffer
      /\ stage' \in {"sync", "closed", "idle"}
      /\ mode = "always" => answered' = answered
  BY DEF WriteBuffer, Continue
<1>3. ASSUME ~misread PROVE Matches'
  <2>1. Matches
    BY <1>2, <1>3 DEF IInv
  <2>2. Len(buffer') = 0 /\ Len(buffer) \in Nat /\ Len(file) \in Nat
    BY <1>1, <1>2, EmptySeq DEF TypeOK
  <2>3. /\ Len(file') = Len(file) + Len(buffer)
        /\ \A i \in 1..(Len(file) + Len(buffer)) :
              file'[i] = IF i <= Len(file) THEN file[i] ELSE buffer[i - Len(file)]
    BY <1>1, <1>2, ConcatProperties DEF TypeOK
  <2>4. ASSUME NEW i \in 1..Len(file') PROVE mem'[i].cmd = file'[i]
    <3>1. CASE i <= Len(file)
      BY <1>2, <2>1, <2>2, <2>3, <3>1 DEF Matches
    <3>2. CASE i > Len(file)
      <4>1. i - Len(file) \in 1..Len(buffer) /\ Len(file) + (i - Len(file)) = i
        BY <2>2, <2>3, <3>2
      <4>2. QED
        BY <1>2, <2>1, <2>2, <2>3, <3>2, <4>1 DEF Matches
    <3>3. QED
      BY <2>2, <2>3, <3>1, <3>2
  <2>5. QED
    BY <1>2, <2>1, <2>2, <2>3, <2>4 DEF Matches
<1>4. QED
  BY <1>1, <1>2, <1>3 DEF IInv

(***************************************************************************)
(* A sync, which is what lets the server answer in mode "always".          *)
(***************************************************************************)
LEMMA SyncInductive == ASSUME IInv, Sync PROVE IInv'
<1>1. TypeOK /\ TypeOK'
  BY OtherType DEF IInv
<1>2. /\ mode' = mode /\ mem' = mem /\ file' = file /\ buffer' = buffer
      /\ misread' = misread /\ synced' = Len(file) /\ answered' = Len(mem)
      /\ stage = "sync" /\ stage' \in {"closed", "idle"} /\ buffer = <<>>
  BY DEF Sync, Continue, IInv
<1>3. ASSUME ~misread PROVE Matches' /\ answered' = synced'
  <2>1. Matches
    BY <1>2, <1>3 DEF IInv
  <2>2. Len(buffer) = 0 /\ Len(file) \in Nat
    BY <1>1, <1>2, EmptySeq DEF TypeOK
  <2>3. QED
    BY <1>2, <2>1, <2>2 DEF Matches
<1>4. QED
  BY <1>1, <1>2, <1>3 DEF IInv, TypeOK

(***************************************************************************)
(* Starting a flush, and stopping without one.                             *)
(***************************************************************************)
LEMMA FlushInductive == ASSUME IInv, PeriodicFsync \/ Shutdown PROVE IInv'
<1>1. TypeOK /\ TypeOK'
  BY OtherType DEF IInv
<1>2. /\ mode' = mode /\ mem' = mem /\ file' = file /\ buffer' = buffer
      /\ misread' = misread /\ synced' = synced /\ answered' = answered
      /\ stage = "idle" /\ stage' \in {"idle", "write", "closed"}
      /\ stage' = "closed" => buffer = <<>>
  BY DEF PeriodicFsync, Shutdown, Flush, history
<1>3. Matches => Matches'
  BY <1>2 DEF Matches
<1>4. QED
  BY <1>1, <1>2, <1>3 DEF IInv

(***************************************************************************)
(* The process dies with its buffer.                                       *)
(***************************************************************************)
LEMMA CrashInductive == ASSUME IInv, Crash PROVE IInv'
<1>1. TypeOK /\ TypeOK'
  BY OtherType DEF IInv
<1>2. /\ mode' = mode /\ mem' = mem /\ file' = file /\ buffer' = <<>>
      /\ misread' = misread /\ synced' = synced /\ answered' = answered
      /\ stage # "down" /\ stage' = "down"
  BY DEF Crash, GoDown, Up, history
<1>3. ASSUME Matches PROVE FileInMemory'
  <2>1. Len(buffer) \in Nat /\ Len(file) \in Nat
    BY <1>1 DEF TypeOK
  <2>2. QED
    BY <1>2, <1>3, <2>1 DEF Matches, FileInMemory
<1>4. QED
  BY <1>1, <1>2, <1>3 DEF IInv

(***************************************************************************)
(* The power fails, in whatever stage.                                     *)
(***************************************************************************)
LEMMA PowerFailureInductive == ASSUME IInv, PowerFailure PROVE IInv'
<1>1. TypeOK /\ TypeOK'
  BY PowerFailureType DEF IInv
<1>2. PICK kept \in synced..Len(file) :
         /\ Len(file') = kept /\ synced' = kept
         /\ \A i \in 1..kept : file'[i] = file[i]
  BY <1>1, FileLeft
<1>3. /\ mode' = mode /\ mem' = mem /\ buffer' = <<>>
      /\ misread' = misread /\ answered' = answered /\ stage' = "down"
  BY DEF PowerFailure, GoDown, history
<1>4. ASSUME ~misread PROVE FileInMemory'
  <2>1. Len(buffer) \in Nat /\ Len(file) \in Nat /\ synced \in 0..Len(file)
    BY <1>1 DEF TypeOK
  <2>2. FileInMemory
    BY <1>4, <2>1 DEF IInv, Matches, FileInMemory
  <2>3. QED
    BY <1>2, <1>3, <2>1, <2>2 DEF FileInMemory
<1>5. mode = "always" /\ ~misread => answered' <= synced'
  BY <1>1, <1>2, <1>3 DEF IInv, TypeOK
<1>6. QED
  BY <1>1, <1>3, <1>4, <1>5 DEF IInv

(***************************************************************************)
(* Every step keeps the invariant.                                         *)
(***************************************************************************)
LEMMA StepInductive == IInv /\ [Next]_vars => IInv'
<1> SUFFICES ASSUME IInv, [Next]_vars PROVE IInv'
  OBVIOUS
<1>1. CASE Start
  BY <1>1, StartInductive
<1>2. ASSUME NEW d \in DB, NEW cmd \in Write, Dispatch(d, cmd) PROVE IInv'
  BY <1>2, DispatchInductive
<1>3. CASE WriteBuffer
  BY <1>3, WriteBufferInductive
<1>4. CASE Sync
  BY <1>4, SyncInductive
<1>5. CASE PeriodicFsync \/ Shutdown
  BY <1>5, FlushInductive
<1>6. CASE Crash
  BY <1>6, CrashInductive
<1>7. CASE PowerFailure
  BY <1>7, PowerFailureInductive
<1>8. CASE UNCHANGED vars
  <2>1. /\ mode' = mode /\ stage' = stage /\ forced' = forced /\ stopping' = stopping
        /\ mem' = mem /\ buffer' = buffer /\ file' = file /\ synced' = synced
        /\ torn' = torn /\ answered' = answered /\ woken' = woken /\ misread' = misread
    BY <1>8 DEF vars, history
  <2>2. QED
    BY <2>1 DEF IInv, TypeOK, Matches, FileInMemory
<1>9. QED
  BY <1>1, <1>2, <1>3, <1>4, <1>5, <1>6, <1>7, <1>8 DEF Next

(***************************************************************************)
(* The invariant holds in every state.                                     *)
(***************************************************************************)
LEMMA InductiveInvariant == Spec => []IInv
BY InitInductive, StepInductive, PTL DEF Spec

-----------------------------------------------------------------------------
(***************************************************************************)
(* The log is the history of the databases: no command is lost or written  *)
(* twice between memory, buffer and file.                                  *)
(***************************************************************************)
THEOREM LogIsHistory == Spec => []LogMatchesMemory
<1>1. IInv => LogMatchesMemory
  BY MatchesMeans DEF IInv, LogMatchesMemory
<1>2. QED
  BY <1>1, InductiveInvariant, PTL

(***************************************************************************)
(* A sequence that agrees with another one as far as it goes is a prefix.  *)
(***************************************************************************)
LEMMA PrefixPointwise ==
    ASSUME NEW S, NEW s \in Seq(S), NEW T, NEW t \in Seq(T),
           Len(s) <= Len(t), \A i \in 1..Len(s) : s[i] = t[i]
    PROVE  IsPrefix(s, t)
<1>1. Len(s) \in Nat /\ Len(t) \in Nat
  OBVIOUS
<1>2. SubSeq(s, 1, Len(s)) = SubSeq(t, 1, Len(s))
  BY <1>1
<1>3. QED
  BY <1>2 DEF IsPrefix

(***************************************************************************)
(* What a sound restart finds: the file, which is a prefix of what the     *)
(* databases held.                                                         *)
(***************************************************************************)
LEMMA SoundStart ==
    ASSUME IInv, Start, Sound
    PROVE  /\ Len(mem') = Len(file) /\ Len(file) <= Len(mem)
           /\ \A i \in 1..Len(file) : mem'[i].cmd = file[i] /\ mem[i].cmd = file[i]
<1>1. TypeOK /\ ~Damaged /\ ~misread
  BY DEF IInv, Sound
<1>2. Len(file) \in Nat /\ Len(buffer) \in Nat
  BY <1>1 DEF TypeOK
<1>3. FileInMemory
  BY <1>1, <1>2 DEF IInv, Matches, FileInMemory
<1>4. QED
  BY <1>1, <1>3, StartReads DEF FileInMemory

(***************************************************************************)
(* Effects and their commands.                                             *)
(***************************************************************************)
LEMMA CommandsType ==
    ASSUME NEW effects \in Seq(Effect)
    PROVE  /\ Commands(effects) \in Seq(Write \cup {Garbage})
           /\ Len(Commands(effects)) = Len(effects)
           /\ \A i \in 1..Len(effects) : Commands(effects)[i] = effects[i].cmd
<1>1. Len(effects) \in Nat /\ \A i \in 1..Len(effects) : effects[i] \in Effect
  BY ElementOfSeq
<1>2. QED
  BY <1>1 DEF Commands, Effect

(***************************************************************************)
(* Whatever the fsync mode and wherever the server died, a restart from a  *)
(* file that is not damaged finds a prefix of the history, and at least    *)
(* what had been synced.                                                   *)
(***************************************************************************)
THEOREM RecoveryFindsAPrefix == Spec => RecoversPrefix
<1>1. ASSUME IInv, IInv', Start, Sound
      PROVE  /\ IsPrefix(Commands(mem'), Commands(mem))
             /\ IsPrefix(SubSeq(file, 1, synced), Commands(mem'))
  <2>1. /\ mem \in Seq(Effect) /\ mem' \in Seq(Effect) /\ file \in Seq(Write)
        /\ Len(file) \in Nat /\ synced \in 0..Len(file)
    BY <1>1 DEF IInv, TypeOK
  <2>2. /\ Len(mem') = Len(file) /\ Len(file) <= Len(mem)
        /\ \A i \in 1..Len(file) : mem'[i].cmd = file[i] /\ mem[i].cmd = file[i]
    BY <1>1, SoundStart
  <2>3. /\ Commands(mem) \in Seq(Write \cup {Garbage})
        /\ Len(Commands(mem)) = Len(mem)
        /\ \A i \in 1..Len(mem) : Commands(mem)[i] = mem[i].cmd
    BY <2>1, CommandsType
  <2>4. /\ Commands(mem') \in Seq(Write \cup {Garbage})
        /\ Len(Commands(mem')) = Len(mem')
        /\ \A i \in 1..Len(mem') : Commands(mem')[i] = mem'[i].cmd
    BY <2>1, CommandsType
  <2>5. IsPrefix(Commands(mem'), Commands(mem))
    <3>1. \A i \in 1..Len(Commands(mem')) : Commands(mem')[i] = Commands(mem)[i]
      BY <2>1, <2>2, <2>3, <2>4
    <3>2. QED
      BY <2>2, <2>3, <2>4, <3>1, PrefixPointwise
  <2>6. IsPrefix(SubSeq(file, 1, synced), Commands(mem'))
    <3> DEFINE kept == SubSeq(file, 1, synced)
    <3>1. /\ kept \in Seq(Write) /\ Len(kept) = synced
          /\ \A i \in 1..synced : kept[i] = file[i]
      BY <2>1
    <3> HIDE DEF kept
    <3>2. \A i \in 1..Len(kept) : kept[i] = Commands(mem')[i]
      BY <2>1, <2>2, <2>4, <3>1
    <3>3. IsPrefix(kept, Commands(mem'))
      BY <2>1, <2>2, <2>4, <3>1, <3>2, PrefixPointwise
    <3>4. QED
      BY <3>3 DEF kept
  <2>7. QED
    BY <2>5, <2>6
<1>2. QED
  BY <1>1, InductiveInvariant, PTL DEF Spec, RecoversPrefix

(***************************************************************************)
(* In mode "always" no answered command is ever lost, to a crash or to a   *)
(* power failure, by a restart from a file that is not damaged.            *)
(***************************************************************************)
THEOREM AlwaysIsDurable == Spec => NothingAnsweredLost
<1>1. ASSUME IInv, IInv', Start, mode = "always", Sound
      PROVE  IsPrefix(SubSeq(Commands(mem), 1, answered), Commands(mem'))
  <2>1. /\ mem \in Seq(Effect) /\ mem' \in Seq(Effect) /\ Len(file) \in Nat
        /\ answered \in 0..Len(mem) /\ synced \in 0..Len(file) /\ answered <= synced
    BY <1>1 DEF IInv, TypeOK, Sound
  <2>2. /\ Len(mem') = Len(file)
        /\ \A i \in 1..Len(file) : mem'[i].cmd = file[i] /\ mem[i].cmd = file[i]
    BY <1>1, SoundStart
  <2>3. /\ Commands(mem) \in Seq(Write \cup {Garbage})
        /\ Len(Commands(mem)) = Len(mem)
        /\ \A i \in 1..Len(mem) : Commands(mem)[i] = mem[i].cmd
    BY <2>1, CommandsType
  <2>4. /\ Commands(mem') \in Seq(Write \cup {Garbage})
        /\ Len(Commands(mem')) = Len(mem')
        /\ \A i \in 1..Len(mem') : Commands(mem')[i] = mem'[i].cmd
    BY <2>1, CommandsType
  <2> DEFINE kept == SubSeq(Commands(mem), 1, answered)
  <2>5. /\ kept \in Seq(Write \cup {Garbage}) /\ Len(kept) = answered
        /\ \A i \in 1..answered : kept[i] = Commands(mem)[i]
    BY <2>1, <2>3
  <2> HIDE DEF kept
  <2>6. \A i \in 1..Len(kept) : kept[i] = Commands(mem')[i]
    BY <2>1, <2>2, <2>3, <2>4, <2>5
  <2>7. IsPrefix(kept, Commands(mem'))
    BY <2>1, <2>2, <2>4, <2>5, <2>6, PrefixPointwise
  <2>8. QED
    BY <2>7 DEF kept
<1>2. QED
  BY <1>1, InductiveInvariant, PTL DEF Spec, NothingAnsweredLost
=============================================================================
