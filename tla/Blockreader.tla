----------------------------- MODULE Blockreader -----------------------------
(***************************************************************************)
(* src/blockreader/blockreader.c: a reader thread that reads a file ahead  *)
(* into a ring of BufferCount blocks, and a client that takes the blocks   *)
(* out with blockreader_get.  Both share one mutex and one condition       *)
(* variable.                                                               *)
(*                                                                         *)
(* A critical section is one action: every field of the struct is touched  *)
(* only with the lock held.  The contents of the ring are the exception:   *)
(* fread writes a slot, and the client reads the one it was given, without *)
(* the lock, so a slot is Torn for as long as fread is at work on it.      *)
(* A block is named by its byte offset in the file.                        *)
(***************************************************************************)
EXTENDS Integers, Sequences

CONSTANTS StartOffset,  \* argument of blockreader_new: where to start
          Blocksize,    \* argument: bytes in a block
          Count,        \* argument: blocks wanted
          BufferCount,  \* argument: slots of the ring
          FileLength,   \* bytes in the file
          SeekMayFail,  \* the file may not be seekable (a pipe, a device)
          ReadMayFail,  \* fread may fail before the end of the file
          NULL,         \* no block, no pointer
          Torn          \* contents of a slot that holds no complete block

\* The checks of blockreader_new (line 62), and what a file is.
ASSUME ArgumentsAssumption ==
  /\ StartOffset \in Nat /\ Blocksize \in Nat \ {0}
  /\ Count \in Nat /\ BufferCount \in Nat /\ BufferCount >= 2
  /\ FileLength \in Nat
  /\ SeekMayFail \in BOOLEAN /\ ReadMayFail \in BOOLEAN
  /\ NULL \notin Int /\ Torn \notin Int

VARIABLES
  done, read_buffer, write_buffer, offset, count,   \* fields of the struct
  buffer,       \* the ring: slot -> block or Torn
  file_pos,     \* position of the FILE
  file,         \* "closed" or "open"
  thread_pc,    \* where the reader thread is
  client_pc,    \* where the client is
  held,         \* slot the client's pointer refers to, or NULL
  answer,       \* the call of the client that returned last, and its value
  delivered,    \* history: the blocks blockreader_get returned
  ended,        \* history: blockreader_get returned NULL
  failed        \* history: fseek failed, or fread before the end of the file

struct == <<done, read_buffer, write_buffer, offset, count>>
history == <<delivered, ended, failed>>
vars == <<struct, buffer, file_pos, file, thread_pc, client_pc, held, answer,
          history>>

Slots == 0 .. BufferCount - 1

\* ---- reader thread ------------------------------------------------------

\* Without the remainder.
Further(s) == s + 1
\* Lines 42 and 106: the index of the following slot.
Following(s) == (s + 1) % BufferCount

\* Line 47: one slot always stays free, it is the one the client may hold.
NeverFull(w, r) == FALSE
FullWhenEqual(w, r) == w = r
Full(w, r) == Following(w) = r

\* pthread_cond_broadcast: whoever waits will contend for the lock again.
WakeNobody == UNCHANGED client_pc
WakeClient == client_pc' = IF client_pc = "waiting" THEN "get" ELSE client_pc
WakeThread == thread_pc' = IF thread_pc = "waiting" THEN "woken" ELSE thread_pc

\* Lines 32-34 and 51: leave the loop, or start the next fread into slot w.
LoopHead(isDone, w, ring) ==
  \/ isDone /\ thread_pc' = "leaving" /\ buffer' = ring
  \/ ~isDone /\ thread_pc' = "reading" /\ buffer' = [ring EXCEPT ![w] = Torn]

\* Lines 47-49: wait while the ring is full and something is left to read.
WaitForSlot(isDone, w, c, ring) ==
  LET wait == ~isDone /\ c # 0 /\ Full(w, read_buffer)
  IN  \/ wait /\ thread_pc' = "waiting" /\ buffer' = ring
      \/ ~wait /\ LoopHead(isDone, w, ring)

\* Lines 29-34: seek to the start; a failure ends the thread, unannounced.
Seek ==
  /\ thread_pc = "created"
  /\ \E fails \in IF SeekMayFail THEN BOOLEAN ELSE {FALSE} :
       /\ done' = (done \/ fails)
       /\ failed' = fails
       /\ file_pos' = IF fails THEN file_pos ELSE offset
       /\ LoopHead(done', write_buffer, buffer)
  /\ UNCHANGED <<read_buffer, write_buffer, offset, count, file, client_pc,
                 held, answer, delivered, ended>>

\* Lines 36-49 when fread delivered a block.
ReadBlock ==
  /\ thread_pc = "reading" /\ file_pos + Blocksize <= FileLength
  /\ LET w == Following(write_buffer)
         loaded == [buffer EXCEPT ![write_buffer] = file_pos]
     IN /\ write_buffer' = w
        /\ count' = count - 1
        /\ done' = (done \/ count - 1 <= 0)
        /\ WaitForSlot(done', w, count - 1, loaded)
  /\ file_pos' = file_pos + Blocksize
  /\ WakeClient
  /\ UNCHANGED <<read_buffer, offset, file, held, answer, history>>

\* Lines 36-49 when fread failed: the slot was not filled.
ReadFails ==
  /\ thread_pc = "reading" /\ (ReadMayFail \/ file_pos + Blocksize > FileLength)
  /\ done' = TRUE
  /\ failed' = (file_pos + Blocksize <= FileLength)
  /\ thread_pc' = "leaving"
  /\ WakeClient
  /\ UNCHANGED <<read_buffer, write_buffer, offset, count, buffer, file_pos,
                 file, held, answer, delivered, ended>>

\* Lines 47-49, back from pthread_cond_wait with the lock held.
RetryWait ==
  /\ thread_pc = "woken"
  /\ WaitForSlot(done, write_buffer, count, buffer)
  /\ UNCHANGED <<struct, file_pos, file, client_pc, held, answer, history>>

\* Lines 53-55: the thread closes the file and ends.
Leave ==
  /\ thread_pc = "leaving"
  /\ thread_pc' = "exited" /\ file' = "closed"
  /\ UNCHANGED <<struct, buffer, file_pos, client_pc, held, answer, history>>

\* pthread_cond_wait may return with no broadcast.
SpuriousWakeup ==
  /\ \/ thread_pc = "waiting" /\ thread_pc' = "woken" /\ UNCHANGED client_pc
     \/ client_pc = "waiting" /\ client_pc' = "get" /\ UNCHANGED thread_pc
  /\ UNCHANGED <<struct, buffer, file_pos, file, held, answer, history>>

\* ---- client -------------------------------------------------------------

\* Lines 67-83.  A failure leaves nothing behind and is not a step.
New ==
  /\ client_pc = "none"
  /\ client_pc' = "idle" /\ thread_pc' = "created" /\ file' = "open"
  /\ done' = FALSE /\ read_buffer' = 0 /\ write_buffer' = 0
  /\ offset' = StartOffset /\ count' = Count
  /\ UNCHANGED <<buffer, file_pos, held, answer, history>>

\* The client calls blockreader_get and gives up the pointer it has.
CallGet ==
  /\ client_pc = "idle"
  /\ client_pc' = "get" /\ held' = NULL /\ answer' = NULL
  /\ UNCHANGED <<struct, buffer, file_pos, file, thread_pc, history>>

\* Line 103: nothing to take yet.
GetWaits ==
  /\ client_pc = "get" /\ read_buffer = write_buffer /\ ~done
  /\ client_pc' = "waiting"
  /\ UNCHANGED <<struct, buffer, file_pos, file, thread_pc, held, answer, history>>

\* Lines 105-111: take the next block out of the ring.
GetReturnsBlock ==
  /\ client_pc = "get" /\ read_buffer # write_buffer
  /\ held' = read_buffer
  /\ read_buffer' = Following(read_buffer)
  /\ offset' = offset + Blocksize
  /\ delivered' = Append(delivered, buffer[read_buffer])
  /\ answer' = [op |-> "get", val |-> buffer[read_buffer]]
  /\ client_pc' = "idle"
  /\ WakeThread
  /\ UNCHANGED <<done, write_buffer, count, buffer, file_pos, file, ended,
                 failed>>

\* NULL as soon as the thread is done, whatever the ring still holds.
GetReturnsNullEarly ==
  /\ client_pc = "get" /\ done
  /\ answer' = [op |-> "get", val |-> NULL] /\ ended' = TRUE
  /\ client_pc' = "idle"
  /\ WakeThread
  /\ UNCHANGED <<struct, buffer, file_pos, file, held, delivered, failed>>

\* Lines 102 and 109-111: nothing left and nothing to come.
GetReturnsNull ==
  /\ client_pc = "get" /\ read_buffer = write_buffer /\ done
  /\ answer' = [op |-> "get", val |-> NULL] /\ ended' = TRUE
  /\ client_pc' = "idle"
  /\ WakeThread
  /\ UNCHANGED <<struct, buffer, file_pos, file, held, delivered, failed>>

\* blockreader_offset, lines 114-124.
Offset ==
  /\ client_pc = "idle"
  /\ answer' = [op |-> "offset", val |-> offset]
  /\ UNCHANGED <<struct, buffer, file_pos, file, thread_pc, client_pc, held, history>>

\* blockreader_destroy without telling the thread.
DestroySilently ==
  /\ client_pc = "idle"
  /\ done' = TRUE /\ client_pc' = "joining" /\ held' = NULL /\ answer' = NULL
  /\ UNCHANGED <<read_buffer, write_buffer, offset, count, buffer, file_pos,
                 file, thread_pc, history>>

\* blockreader_destroy, lines 142-145: ask the thread to stop.
Destroy ==
  /\ client_pc = "idle"
  /\ done' = TRUE /\ client_pc' = "joining" /\ held' = NULL /\ answer' = NULL
  /\ WakeThread
  /\ UNCHANGED <<read_buffer, write_buffer, offset, count, buffer, file_pos,
                 file, history>>

\* Lines 147-151: join, then free.
Free ==
  /\ client_pc = "joining" /\ thread_pc = "exited"
  /\ client_pc' = "freed"
  /\ UNCHANGED <<struct, buffer, file_pos, file, thread_pc, held, answer, history>>

\* Nothing runs after the free.
Over == client_pc = "freed" /\ thread_pc = "exited" /\ UNCHANGED vars

\* ---- specification ------------------------------------------------------

Init ==
  /\ done = FALSE /\ read_buffer = 0 /\ write_buffer = 0
  /\ offset = 0 /\ count = 0
  /\ buffer = [s \in Slots |-> Torn]
  /\ file_pos = 0 /\ file = "closed"
  /\ thread_pc = "none" /\ client_pc = "none"
  /\ held = NULL /\ answer = NULL /\ delivered = <<>> /\ ended = FALSE
  /\ failed = FALSE

Thread == Seek \/ ReadBlock \/ ReadFails \/ RetryWait \/ Leave
Get == GetWaits \/ GetReturnsBlock \/ GetReturnsNull
Client == New \/ CallGet \/ Get \/ Offset \/ Destroy \/ Free

Next == Thread \/ SpuriousWakeup \/ Client \/ Over

\* The threads are scheduled, the mutex is granted, fread comes back, and a
\* call in progress goes on.  Nobody has to make a call, and a wait may never
\* return without a broadcast.
Fairness == WF_vars(Thread) /\ WF_vars(Get) /\ WF_vars(Free)

Spec == Init /\ [][Next]_vars
FairSpec == Spec /\ Fairness

\* ---- properties ---------------------------------------------------------

\* Every variable has its type; the indices stay inside the ring.
TypeOK ==
  /\ done \in BOOLEAN
  /\ read_buffer \in Slots /\ write_buffer \in Slots
  /\ offset \in Nat /\ count \in Int
  /\ buffer \in [Slots -> Nat \cup {Torn}]
  /\ file_pos \in Nat /\ file \in {"open", "closed"}
  /\ thread_pc \in {"none", "created", "reading", "waiting", "woken", "leaving", "exited"}
  /\ client_pc \in {"none", "idle", "get", "waiting", "joining", "freed"}
  /\ held \in Slots \cup {NULL}
  /\ answer \in {NULL} \cup [op : {"get", "offset"}, val : Nat \cup {NULL}]
  /\ delivered \in Seq(Nat) /\ ended \in BOOLEAN /\ failed \in BOOLEAN

\* blockreader.h: the pointer is valid until the next call.  The slot it refers
\* to keeps the block that was returned, however far the thread reads ahead.
HeldBlockIntact ==
  held # NULL => /\ delivered # <<>>
                 /\ buffer[held] = delivered[Len(delivered)]

\* The client gets the blocks of the file from the start offset on, each one
\* once and in order: nothing torn, skipped or repeated by the ring.
InOrder ==
  \A i \in 1 .. Len(delivered) : delivered[i] = StartOffset + (i - 1) * Blocksize

\* Nobody waits for something that has happened already: a wakeup cannot be
\* missed by going to sleep around a broadcast.
NoLostWakeup ==
  /\ client_pc = "waiting" => read_buffer = write_buffer /\ ~done
  /\ thread_pc = "waiting" => Full(write_buffer, read_buffer) /\ ~done

\* Number of whole blocks from the start offset to the end of the file.
BlocksInFile ==
  IF FileLength < StartOffset THEN 0 ELSE (FileLength - StartOffset) \div Blocksize

\* Blocks the client is given.  Also with Count = 0 one block is read: the
\* count is looked at after the first fread.
Limit ==
  LET wanted == IF Count = 0 THEN 1 ELSE Count
  IN  IF wanted < BlocksInFile THEN wanted ELSE BlocksInFile

\* Blocks that wait in the ring.
Backlog == (write_buffer - read_buffer) % BufferCount

\* The client cannot tell the ring and the thread from the plain stream of
\* BlockStream: all Limit blocks, or those read before a failure, then NULL
\* for ever, every call answered.
Stream == INSTANCE BlockStream WITH
  asked <- client_pc \in {"get", "waiting"},
  readable <- IF failed THEN Len(delivered) + Backlog ELSE Limit

ImplementsStream == Stream!Spec

\* Every call returns: blockreader_get finds a block or the end, and
\* blockreader_destroy the end of the thread.
GetReturns == client_pc \in {"get", "waiting"} ~> client_pc = "idle"
DestroyReturns == client_pc = "joining" ~> client_pc = "freed"

\* blockreader.h: "Get the offset of the last block returned by
\* blockreader_get."
OffsetOfLastBlock ==
  answer # NULL /\ answer.op = "offset" /\ delivered # <<>>
    => answer.val = delivered[Len(delivered)]

=============================================================================
