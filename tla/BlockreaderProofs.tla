-------------------------- MODULE BlockreaderProofs --------------------------
(***************************************************************************)
(* Proofs about Blockreader, for every file, start offset, block size,     *)
(* count and ring size.                                                    *)
(***************************************************************************)
EXTENDS Blockreader, TLAPS

\* Successor of a slot without the remainder, and its inverse.
After(s) == IF s + 1 = BufferCount THEN 0 ELSE s + 1
Before(s) == IF s = 0 THEN BufferCount - 1 ELSE s - 1

\* Blocks in the ring, and the slot d places behind the read position.
Filled == IF read_buffer <= write_buffer
          THEN write_buffer - read_buffer
          ELSE write_buffer - read_buffer + BufferCount
SlotAt(d) == IF read_buffer + d < BufferCount
             THEN read_buffer + d
             ELSE read_buffer + d - BufferCount

\* The d-th block waiting in the ring is the d-th one from the offset on.
RingContents ==
  \A d \in Slots : d < Filled => buffer[SlotAt(d)] = offset + d * Blocksize

\* Before the thread has run nothing happened; before New not even that.
FreshStart ==
  /\ thread_pc \in {"none", "created"} =>
       read_buffer = 0 /\ write_buffer = 0 /\ delivered = <<>> /\ held = NULL
  /\ client_pc = "none" <=> thread_pc = "none"

\* While the thread reads, the FILE is behind the blocks in the ring and the
\* slot that fread fills is not the only one left.
ReaderPosition ==
  /\ client_pc # "none" => offset = StartOffset + Len(delivered) * Blocksize
  /\ thread_pc \in {"reading", "waiting", "woken"} =>
       file_pos = offset + Filled * Blocksize
  /\ thread_pc = "reading" => After(write_buffer) # read_buffer
  /\ thread_pc \in {"waiting", "woken"} => count > 0

\* The client's slot is the one before the read position.
HeldSlot ==
  held # NULL => /\ held = Before(read_buffer)
                 /\ delivered # <<>>
                 /\ buffer[held] = delivered[Len(delivered)]

IInv == /\ TypeOK
        /\ FreshStart
        /\ ReaderPosition
        /\ RingContents
        /\ HeldSlot
        /\ InOrder
        /\ thread_pc = "exited" => file = "closed"

-----------------------------------------------------------------------------

\* The remainder in the code is a wrap at the end of the ring.
LEMMA NextSlot ==
  ASSUME NEW s \in Slots
  PROVE  /\ Following(s) = After(s)
         /\ After(s) \in Slots /\ Before(s) \in Slots
         /\ Before(After(s)) = s
<1>1. BufferCount \in Nat /\ BufferCount >= 2 /\ s \in Nat /\ s < BufferCount
  BY ArgumentsAssumption DEF Slots
<1>2. CASE s + 1 = BufferCount
  <2>1. BufferCount % BufferCount = 0  BY <1>1
  <2> QED  BY <1>1, <1>2, <2>1 DEF After, Before, Slots, Following
<1>3. CASE s + 1 # BufferCount
  <2>1. (s + 1) % BufferCount = s + 1  BY <1>1, <1>3
  <2> QED  BY <1>1, <1>3, <2>1 DEF After, Before, Slots, Following
<1> QED  BY <1>2, <1>3

\* One block more is one block size further.
LEMMA OneMore ==
  \A k \in Int : (k + 1) * Blocksize = k * Blocksize + Blocksize
BY ArgumentsAssumption

LEMMA InitIInv == Init => IInv
<1> SUFFICES ASSUME Init PROVE IInv  OBVIOUS
<1> USE ArgumentsAssumption DEF Init
<1>1. TypeOK
  <2>1. delivered \in Seq(Nat)  OBVIOUS
  <2>2. buffer \in [Slots -> Nat \cup {Torn}]  OBVIOUS
  <2>3. 0 \in Slots  BY DEF Slots
  <2> QED  BY <2>1, <2>2, <2>3 DEF TypeOK
<1>2. FreshStart /\ ReaderPosition /\ HeldSlot  BY DEF FreshStart, ReaderPosition, HeldSlot
<1>3. RingContents  BY DEF RingContents, Filled, Slots
<1>4. InOrder  BY DEF InOrder
<1> QED  BY <1>1, <1>2, <1>3, <1>4 DEF IInv

\* What the ring holds depends on these variables only.
LEMMA SameRing ==
  ASSUME UNCHANGED <<read_buffer, write_buffer, buffer, offset>>
  PROVE  /\ RingContents => RingContents'
         /\ Filled' = Filled
BY DEF RingContents, Filled, SlotAt

\* The steps of the client that leave the ring, the file and the thread's
\* place alone, or only ask the thread to stop or to look again.
LEMMA ClientStep ==
  ASSUME IInv, CallGet \/ GetWaits \/ GetReturnsNull \/ Offset \/ Destroy
  PROVE  IInv'
<1>1. UNCHANGED <<read_buffer, write_buffer, buffer, offset, count, file_pos,
                  file, delivered, failed>>
  BY DEF CallGet, GetWaits, GetReturnsNull, Offset, Destroy, struct, history
<1>2. /\ thread_pc' = thread_pc \/ (thread_pc = "waiting" /\ thread_pc' = "woken")
      /\ client_pc # "none" /\ client_pc' \notin {"none", "freed"}
      /\ held' = held \/ held' = NULL
  BY DEF CallGet, GetWaits, GetReturnsNull, Offset, Destroy, struct, history,
         WakeThread
<1>3. TypeOK'
  <2>1. answer' \in {NULL} \cup [op : {"get", "offset"}, val : Nat \cup {NULL}]
    BY DEF IInv, TypeOK, CallGet, GetWaits, GetReturnsNull, Offset, Destroy
  <2>2. /\ done' \in BOOLEAN /\ ended' \in BOOLEAN
        /\ client_pc' \in {"none", "idle", "get", "waiting", "joining", "freed"}
    BY DEF IInv, TypeOK, CallGet, GetWaits, GetReturnsNull, Offset, Destroy,
           struct, history
  <2> QED  BY <1>1, <1>2, <2>1, <2>2 DEF IInv, TypeOK
<1>4. FreshStart'  BY <1>1, <1>2 DEF IInv, FreshStart
<1>5. RingContents' /\ Filled' = Filled  BY <1>1, SameRing DEF IInv
<1>6. ReaderPosition'  BY <1>1, <1>2, <1>5 DEF IInv, ReaderPosition, After
<1>7. HeldSlot'  BY <1>1, <1>2 DEF IInv, HeldSlot, Before
<1>8. InOrder' /\ (thread_pc' = "exited" => file' = "closed")
  BY <1>1, <1>2 DEF IInv, InOrder
<1> QED  BY <1>3, <1>4, <1>5, <1>6, <1>7, <1>8 DEF IInv

LEMMA NewStep == ASSUME IInv, New PROVE IInv'
<1> USE ArgumentsAssumption DEF New
<1>1. TypeOK'
  <2>1. read_buffer' \in Slots /\ write_buffer' \in Slots  BY DEF Slots
  <2>2. offset' \in Nat /\ count' \in Int  OBVIOUS
  <2>3. UNCHANGED <<buffer, file_pos, held, answer, delivered, ended, failed>>
    BY DEF history
  <2> HIDE ArgumentsAssumption
  <2> QED  BY <2>1, <2>2, <2>3 DEF IInv, TypeOK
<1>2. thread_pc = "none" /\ delivered = <<>> /\ held = NULL
  BY DEF IInv, FreshStart
<1>3. FreshStart'  BY <1>2 DEF history, FreshStart
<1>4. RingContents'  BY DEF RingContents, Filled, Slots
<1>5. ReaderPosition'  BY <1>2 DEF ReaderPosition, history
<1>6. HeldSlot' /\ InOrder'
  BY <1>2 DEF HeldSlot, InOrder, history
<1> QED  BY <1>1, <1>3, <1>4, <1>5, <1>6 DEF IInv

LEMMA FreeStep == ASSUME IInv, Free PROVE IInv'
<1> USE DEF Free
<1>1. UNCHANGED <<struct, buffer, file_pos, file, thread_pc, held, answer, history>>
  OBVIOUS
<1>2. RingContents' /\ Filled' = Filled  BY SameRing DEF IInv, struct
<1>3. TypeOK'  BY DEF IInv, TypeOK, struct, history
<1>4. FreshStart'  BY DEF IInv, FreshStart, struct, history
<1>5. ReaderPosition'  BY <1>2 DEF IInv, ReaderPosition, struct, history, After
<1>6. HeldSlot' /\ InOrder'  BY DEF IInv, HeldSlot, InOrder, struct, history, Before
<1> QED  BY <1>2, <1>3, <1>4, <1>5, <1>6 DEF IInv

\* The slots of the blocks in the ring are distinct from the slot being
\* written, and from the one before the read position while the ring is not
\* full.
LEMMA RingSlots ==
  ASSUME TypeOK
  PROVE  /\ Filled \in Slots
         /\ SlotAt(Filled) = write_buffer
         /\ SlotAt(0) = read_buffer
         /\ \A d \in Slots : /\ SlotAt(d) \in Slots
                             /\ d < Filled => SlotAt(d) # write_buffer
         /\ After(write_buffer) # read_buffer =>
              /\ Filled + 1 \in Slots
              /\ Before(read_buffer) # write_buffer
              /\ Before(read_buffer) # After(write_buffer) \/ Filled + 2 = BufferCount
BY ArgumentsAssumption DEF TypeOK, Slots, Filled, SlotAt, After, Before

\* Taking the first block of the ring.
LEMMA TakeStep == ASSUME IInv, GetReturnsBlock PROVE IInv'
<1> DEFINE r == read_buffer
<1>1. /\ read_buffer' = After(r) /\ r \in Slots
      /\ write_buffer' = write_buffer /\ r # write_buffer /\ write_buffer \in Slots
      /\ buffer' = buffer /\ offset' = offset + Blocksize
      /\ held' = r /\ client_pc = "get" /\ client_pc' = "idle"
      /\ UNCHANGED <<done, count, file_pos, file, ended, failed>>
      /\ thread_pc' = thread_pc \/ (thread_pc = "waiting" /\ thread_pc' = "woken")
      /\ delivered' = Append(delivered, buffer[r])
      /\ answer' = [op |-> "get", val |-> buffer[r]]
  BY NextSlot DEF IInv, TypeOK, GetReturnsBlock, WakeThread
<1>2. After(r) \in Slots /\ Before(After(r)) = r  BY <1>1, NextSlot
<1>3. /\ thread_pc \notin {"none", "created"} /\ client_pc # "none"
  BY <1>1 DEF IInv, FreshStart
<1>4. Filled \in Slots /\ Filled # 0 /\ SlotAt(0) = r
  BY <1>1, RingSlots, ArgumentsAssumption DEF IInv, Filled, Slots
<1>5. Filled' = Filled - 1
  BY <1>1, ArgumentsAssumption DEF Filled, After, Slots
<1>6. \A d \in Slots : d < Filled' => d + 1 \in Slots /\ SlotAt(d)' = SlotAt(d + 1)
  BY <1>1, <1>4, <1>5, ArgumentsAssumption DEF SlotAt, After, Slots
<1>7. buffer[r] = offset
  <2>1. 0 \in Slots /\ 0 < Filled  BY <1>4, ArgumentsAssumption DEF Slots
  <2>2. buffer[SlotAt(0)] = offset + 0 * Blocksize
    BY <2>1 DEF IInv, RingContents
  <2>3. offset \in Nat  BY DEF IInv, TypeOK
  <2> QED  BY <2>2, <2>3, <1>4, ArgumentsAssumption
<1>8. RingContents'
  <2> SUFFICES ASSUME NEW d \in Slots, d < Filled'
               PROVE  buffer[SlotAt(d)'] = (offset + Blocksize) + d * Blocksize
    BY <1>1 DEF RingContents
  <2>1. buffer[SlotAt(d + 1)] = offset + (d + 1) * Blocksize
    BY <1>4, <1>5, <1>6 DEF IInv, RingContents, Slots
  <2>2. (d + 1) * Blocksize = d * Blocksize + Blocksize /\ d * Blocksize \in Int
    BY OneMore, ArgumentsAssumption DEF Slots
  <2>3. offset \in Nat  BY DEF IInv, TypeOK
  <2> QED  BY <1>6, <2>1, <2>2, <2>3, ArgumentsAssumption
<1>9. /\ delivered' \in Seq(Nat) /\ Len(delivered') = Len(delivered) + 1
      /\ delivered'[Len(delivered')] = offset /\ delivered' # <<>>
      /\ \A i \in 1 .. Len(delivered) : delivered'[i] = delivered[i]
      /\ Len(delivered) \in Nat /\ offset \in Nat
  <2>1. delivered \in Seq(Nat) /\ offset \in Nat  BY DEF IInv, TypeOK
  <2>2. delivered' = Append(delivered, offset)  BY <1>1, <1>7
  <2> HIDE DEF r
  <2> QED  BY <2>1, <2>2
<1>10. /\ offset = StartOffset + Len(delivered) * Blocksize
       /\ offset' = StartOffset + Len(delivered') * Blocksize
  <2>1. offset = StartOffset + Len(delivered) * Blocksize
    BY <1>3 DEF IInv, ReaderPosition
  <2>2. /\ (Len(delivered) + 1) * Blocksize = Len(delivered) * Blocksize + Blocksize
        /\ Len(delivered) * Blocksize \in Int
    BY <1>9, OneMore, ArgumentsAssumption
  <2> QED  BY <1>1, <1>9, <2>1, <2>2, ArgumentsAssumption
<1>11. TypeOK'
  <2>1. answer' \in {NULL} \cup [op : {"get", "offset"}, val : Nat \cup {NULL}]
    BY <1>1, <1>7, <1>9
  <2>2. offset' \in Nat  BY <1>1, <1>9, ArgumentsAssumption
  <2> QED  BY <1>1, <1>2, <1>9, <2>1, <2>2 DEF IInv, TypeOK
<1>12. FreshStart'  BY <1>1, <1>3 DEF FreshStart
<1>13. ReaderPosition'
  <2>1. ASSUME file_pos = offset + Filled * Blocksize
        PROVE  file_pos' = offset' + Filled' * Blocksize
    <3>1. /\ Filled * Blocksize = Filled' * Blocksize + Blocksize
          /\ Filled' * Blocksize \in Int
      BY <1>4, <1>5, OneMore, ArgumentsAssumption DEF Slots
    <3> QED  BY <1>1, <1>9, <2>1, <3>1, ArgumentsAssumption
  <2>2. thread_pc' = "reading" => After(write_buffer') # read_buffer'
    BY <1>1, <1>4, <1>5, ArgumentsAssumption DEF IInv, ReaderPosition, After, Slots
  <2> QED  BY <1>1, <1>10, <2>1, <2>2 DEF IInv, ReaderPosition
<1>14. HeldSlot'  BY <1>1, <1>2, <1>7, <1>9 DEF HeldSlot, Before
<1>15. InOrder'
  <2> SUFFICES ASSUME NEW i \in 1 .. Len(delivered')
               PROVE  delivered'[i] = StartOffset + (i - 1) * Blocksize
    BY DEF InOrder
  <2>1. CASE i \in 1 .. Len(delivered)  BY <2>1, <1>9 DEF IInv, InOrder
  <2>2. CASE i = Len(delivered) + 1  BY <2>2, <1>9, <1>10
  <2> QED  BY <2>1, <2>2, <1>9
<1>16. thread_pc' = "exited" => file' = "closed"
  BY <1>1 DEF IInv
<1> QED  BY <1>8, <1>11, <1>12, <1>13, <1>14, <1>15, <1>16 DEF IInv

\* Starting an fread into a free slot touches no block of the ring and not the
\* client's block.
LEMMA TearStep ==
  ASSUME IInv, After(write_buffer) # read_buffer,
         UNCHANGED <<read_buffer, write_buffer, offset, held, delivered>>,
         buffer' = [buffer EXCEPT ![write_buffer] = Torn]
  PROVE  /\ RingContents' /\ HeldSlot' /\ Filled' = Filled
         /\ buffer' \in [Slots -> Nat \cup {Torn}]
<1>1. /\ buffer \in [Slots -> Nat \cup {Torn}] /\ write_buffer \in Slots
      /\ read_buffer \in Slots
  BY DEF IInv, TypeOK
<1>2. buffer' \in [Slots -> Nat \cup {Torn}]  BY <1>1
<1>3. \A s \in Slots : s # write_buffer => buffer'[s] = buffer[s]  BY <1>1
<1>4. Filled' = Filled  BY DEF Filled
<1>5. RingContents'
  <2> SUFFICES ASSUME NEW d \in Slots, d < Filled
               PROVE  buffer'[SlotAt(d)'] = offset + d * Blocksize
    BY <1>4 DEF RingContents
  <2>1. SlotAt(d) \in Slots /\ SlotAt(d) # write_buffer /\ SlotAt(d)' = SlotAt(d)
    BY RingSlots DEF IInv, SlotAt
  <2> QED  BY <2>1, <1>3 DEF IInv, RingContents
<1>6. HeldSlot'
  <2>1. Before(read_buffer) # write_buffer  BY RingSlots DEF IInv
  <2>2. Before(read_buffer) \in Slots  BY <1>1, NextSlot
  <2> QED  BY <2>1, <2>2, <1>3 DEF IInv, HeldSlot, Before
<1> QED  BY <1>2, <1>4, <1>5, <1>6

LEMMA SeekStep == ASSUME IInv, Seek PROVE IInv'
<1>1. /\ thread_pc = "created" /\ client_pc # "none"
      /\ read_buffer = 0 /\ write_buffer = 0 /\ delivered = <<>> /\ held = NULL
  BY DEF IInv, FreshStart, Seek
<1>2. /\ UNCHANGED <<read_buffer, write_buffer, offset, count, file, client_pc,
                     held, answer, delivered, ended>>
      /\ done' \in BOOLEAN /\ failed' \in BOOLEAN
      /\ file_pos' \in {file_pos, offset}
  BY DEF IInv, TypeOK, Seek, history
<1>3. Filled = 0 /\ After(write_buffer) # read_buffer
  BY <1>1, ArgumentsAssumption DEF Filled, After
<1>4. CASE thread_pc' = "leaving" /\ buffer' = buffer
  <2>1. RingContents'  BY <1>2, <1>4, SameRing DEF IInv
  <2>2. TypeOK'  BY <1>2, <1>4 DEF IInv, TypeOK
  <2>3. FreshStart' /\ ReaderPosition' /\ HeldSlot' /\ InOrder'
    BY <1>1, <1>2, <1>4 DEF IInv, FreshStart, ReaderPosition, HeldSlot, InOrder
  <2> QED  BY <1>4, <2>1, <2>2, <2>3 DEF IInv
<1>5. CASE /\ thread_pc' = "reading" /\ file_pos' = offset
           /\ buffer' = [buffer EXCEPT ![write_buffer] = Torn]
  <2>1. /\ RingContents' /\ HeldSlot' /\ Filled' = Filled
        /\ buffer' \in [Slots -> Nat \cup {Torn}]
    BY <1>2, <1>3, <1>5, TearStep
  <2>2. TypeOK'  BY <1>2, <1>5, <2>1 DEF IInv, TypeOK
  <2>3. offset = offset + 0 * Blocksize  BY ArgumentsAssumption DEF IInv, TypeOK
  <2>4. FreshStart' /\ ReaderPosition' /\ InOrder'
    BY <1>1, <1>2, <1>3, <1>5, <2>1, <2>3
       DEF IInv, FreshStart, ReaderPosition, InOrder, After
  <2> QED  BY <1>5, <2>1, <2>2, <2>4 DEF IInv
<1> QED  BY <1>4, <1>5 DEF Seek, LoopHead

\* A wait ends with the ring full still, with the thread told to stop, or with
\* a free slot.
LEMMA RetryWaitStep == ASSUME IInv, RetryWait PROVE IInv'
<1>1. /\ thread_pc = "woken" /\ client_pc # "none" /\ count > 0
      /\ UNCHANGED <<struct, file_pos, file, client_pc, held, answer, history>>
  BY DEF IInv, FreshStart, ReaderPosition, RetryWait
<1>2. CASE thread_pc' \in {"waiting", "leaving"} /\ buffer' = buffer
  <2>1. RingContents' /\ Filled' = Filled  BY <1>1, <1>2, SameRing DEF IInv, struct
  <2>2. TypeOK'  BY <1>1, <1>2 DEF IInv, TypeOK, struct, history
  <2>3. FreshStart' /\ ReaderPosition'
    BY <1>1, <1>2, <2>1 DEF IInv, FreshStart, ReaderPosition, struct, history
  <2>4. HeldSlot' /\ InOrder'
    BY <1>1, <1>2 DEF IInv, HeldSlot, InOrder, struct, history, Before
  <2> QED  BY <1>2, <2>1, <2>2, <2>3, <2>4 DEF IInv
<1>3. CASE /\ ~Full(write_buffer, read_buffer) /\ thread_pc' = "reading"
           /\ buffer' = [buffer EXCEPT ![write_buffer] = Torn]
  <2>1. After(write_buffer) # read_buffer
    BY <1>3, NextSlot DEF IInv, TypeOK, Full
  <2>2. /\ RingContents' /\ HeldSlot' /\ Filled' = Filled
        /\ buffer' \in [Slots -> Nat \cup {Torn}]
    BY <1>1, <1>3, <2>1, TearStep DEF struct, history
  <2>3. TypeOK'  BY <1>1, <1>3, <2>2 DEF IInv, TypeOK, struct, history
  <2>4. FreshStart' /\ ReaderPosition'
    BY <1>1, <1>3, <2>1, <2>2
       DEF IInv, FreshStart, ReaderPosition, struct, history, After
  <2>5. InOrder'
    BY <1>1, <1>3 DEF IInv, InOrder, struct, history
  <2> QED  BY <1>3, <2>2, <2>3, <2>4, <2>5 DEF IInv
<1> QED  BY <1>1, <1>2, <1>3 DEF IInv, TypeOK, RetryWait, WaitForSlot, LoopHead

\* Steps of the thread, and spurious wakeups, that leave the ring alone.
LEMMA QuietThreadStep ==
  ASSUME IInv, ReadFails \/ Leave \/ SpuriousWakeup
  PROVE  IInv'
<1>1. UNCHANGED <<read_buffer, write_buffer, offset, count, buffer, file_pos,
                  held, answer, delivered, ended>>
  BY DEF ReadFails, Leave, SpuriousWakeup, struct, history
<1>a. failed' \in BOOLEAN
  <2>1. ASSUME ReadFails PROVE failed' \in BOOLEAN
    <3>1. failed' = (file_pos + Blocksize <= FileLength)  BY <2>1 DEF ReadFails
    <3>2. (file_pos + Blocksize <= FileLength) \in BOOLEAN  OBVIOUS
    <3> QED  BY <3>1, <3>2, Zenon
  <2>2. ASSUME Leave \/ SpuriousWakeup PROVE failed' = failed
    BY <2>2 DEF Leave, SpuriousWakeup, history
  <2> QED  BY <2>1, <2>2 DEF IInv, TypeOK
<1>2. /\ done' \in BOOLEAN /\ file' \in {"open", "closed"}
      /\ thread_pc' \in {thread_pc, "woken", "leaving", "exited"}
      /\ thread_pc \notin {"none", "created"} \/ UNCHANGED <<thread_pc, file>>
      /\ thread_pc' = "woken" => thread_pc \in {"waiting", "woken"}
      /\ thread_pc' = "exited" => file' = "closed"
      /\ client_pc' = client_pc \/ (client_pc = "waiting" /\ client_pc' = "get")
      /\ thread_pc = "exited" => thread_pc' = "exited"
  BY DEF IInv, TypeOK, ReadFails, Leave, SpuriousWakeup, struct, history,
         WakeClient
<1>3. TypeOK'  BY <1>a, <1>1, <1>2 DEF IInv, TypeOK
<1>4. RingContents' /\ Filled' = Filled  BY <1>1, SameRing DEF IInv
<1>5. FreshStart'  BY <1>1, <1>2 DEF IInv, FreshStart
<1>6. ReaderPosition'  BY <1>1, <1>2, <1>4, <1>5 DEF IInv, FreshStart, ReaderPosition, After
<1>7. HeldSlot' /\ InOrder'
  BY <1>1, <1>2 DEF IInv, HeldSlot, InOrder, Before
<1> QED  BY <1>2, <1>3, <1>4, <1>5, <1>6, <1>7 DEF IInv

\* A block has been read into the ring.  The next fread may have started into
\* the slot after it.
LEMMA ReadBlockStep == ASSUME IInv, ReadBlock PROVE IInv'
<1> DEFINE w == write_buffer
           loaded == [buffer EXCEPT ![w] = file_pos]
<1>1. /\ thread_pc = "reading" /\ client_pc # "none" /\ After(w) # read_buffer
      /\ file_pos = offset + Filled * Blocksize
      /\ read_buffer \in Slots /\ w \in Slots /\ file_pos \in Nat /\ count \in Int
      /\ buffer \in [Slots -> Nat \cup {Torn}]
  BY DEF IInv, TypeOK, FreshStart, ReaderPosition, ReadBlock
<1>2. /\ After(w) \in Slots /\ Following(w) = After(w)
      /\ Following(After(w)) = After(After(w))
      /\ Before(read_buffer) \in Slots /\ Before(After(After(w))) = After(w)
  BY <1>1, NextSlot
<1>3. /\ write_buffer' = After(w) /\ count' = count - 1
      /\ done' = (done \/ count - 1 <= 0)
      /\ file_pos' = file_pos + Blocksize
      /\ client_pc' = client_pc \/ (client_pc = "waiting" /\ client_pc' = "get")
      /\ UNCHANGED <<read_buffer, offset, file, held, answer, delivered, ended,
                     failed>>
  BY <1>2 DEF ReadBlock, WakeClient, history
<1>4. \/ thread_pc' = "leaving" /\ buffer' = loaded
      \/ thread_pc' = "waiting" /\ buffer' = loaded /\ count' > 0
      \/ /\ thread_pc' = "reading" /\ buffer' = [loaded EXCEPT ![After(w)] = Torn]
         /\ After(After(w)) # read_buffer
  <2>1. WaitForSlot(done', After(w), count - 1, loaded)
    BY <1>2 DEF ReadBlock
  <2>2. ~done' => count - 1 > 0
    <3>1. count - 1 <= 0 => done'  BY <1>3, Zenon
    <3> QED  BY <1>1, <3>1
  <2>3. ~Full(After(w), read_buffer) => After(After(w)) # read_buffer
    BY <1>2 DEF Full
  <2> HIDE DEF loaded, w
  <2>4. count' = count - 1 /\ count - 1 \in Int  BY <1>1, <1>3
  <2> QED  BY <2>1, <2>2, <2>3, <2>4 DEF WaitForSlot, LoopHead
<1>5. /\ buffer' \in [Slots -> Nat \cup {Torn}]
      /\ buffer'[w] = file_pos
      /\ \A s \in Slots : \/ s = w \/ buffer'[s] = buffer[s]
                          \/ s = After(w) /\ After(After(w)) # read_buffer
  <2>1. After(w) # w  BY <1>1, ArgumentsAssumption DEF After, Slots
  <2>2. /\ loaded \in [Slots -> Nat \cup {Torn}] /\ loaded[w] = file_pos
        /\ \A s \in Slots : s = w \/ loaded[s] = buffer[s]
    BY <1>1
  <2> HIDE DEF loaded
  <2>3. CASE buffer' = loaded  BY <2>2, <2>3
  <2>4. CASE /\ buffer' = [loaded EXCEPT ![After(w)] = Torn]
             /\ After(After(w)) # read_buffer
    <3>1. \A s \in Slots : s = After(w) \/ buffer'[s] = loaded[s]
      BY <2>2, <2>4
    <3>2. buffer' \in [Slots -> Nat \cup {Torn}]  BY <2>2, <2>4
    <3>3. w \in Slots  BY <1>1
    <3> HIDE DEF w
    <3> QED  BY <2>1, <2>2, <2>4, <3>1, <3>2, <3>3
  <2> QED  BY <1>4, <2>3, <2>4
<1>6. Filled \in Slots /\ Filled + 1 \in Slots /\ SlotAt(Filled) = w
  BY <1>1, RingSlots DEF IInv
<1>7. Filled' = Filled + 1
  BY <1>1, <1>3, ArgumentsAssumption DEF Filled, After, Slots
<1>8. \A d \in Slots : d < Filled + 1 =>
        /\ SlotAt(d)' = SlotAt(d) /\ SlotAt(d) \in Slots
        /\ d = Filled \/ SlotAt(d) # w
        /\ After(After(w)) # read_buffer => SlotAt(d) # After(w)
  BY <1>1, <1>3, <1>6, ArgumentsAssumption DEF SlotAt, Filled, After, Slots
<1>9. RingContents'
  <2> SUFFICES ASSUME NEW d \in Slots, d < Filled + 1
               PROVE  buffer'[SlotAt(d)'] = offset + d * Blocksize
    BY <1>3, <1>7 DEF RingContents
  <2>1. CASE d = Filled  BY <2>1, <1>1, <1>5, <1>6, <1>8
  <2>2. CASE d # Filled
    <3>1. buffer[SlotAt(d)] = offset + d * Blocksize
      BY <2>2, <1>6 DEF IInv, RingContents, Slots
    <3>2. buffer'[SlotAt(d)] = buffer[SlotAt(d)]  BY <2>2, <1>5, <1>8
    <3> QED  BY <1>8, <3>1, <3>2
  <2> QED  BY <2>1, <2>2
<1>10. HeldSlot'
  <2>1. Before(read_buffer) # w  BY <1>1, RingSlots DEF IInv
  <2>2. After(After(w)) # read_buffer => Before(read_buffer) # After(w)
    BY <1>1, <1>2, ArgumentsAssumption DEF Before, After, Slots
  <2>3. buffer'[Before(read_buffer)] = buffer[Before(read_buffer)]
    BY <1>2, <1>5, <2>1, <2>2
  <2> QED  BY <1>3, <2>3 DEF IInv, HeldSlot, Before
<1>11. TypeOK'
  <2>1. done' \in BOOLEAN /\ count' \in Int /\ file_pos' \in Nat
    BY <1>1, <1>3, ArgumentsAssumption
  <2> QED  BY <1>2, <1>3, <1>4, <1>5, <2>1 DEF IInv, TypeOK
<1>12. FreshStart'  BY <1>1, <1>3, <1>4 DEF FreshStart
<1>13. ReaderPosition'
  <2>1. /\ (Filled + 1) * Blocksize = Filled * Blocksize + Blocksize
        /\ Filled * Blocksize \in Int /\ offset \in Nat
    <3>1. Filled \in Int /\ offset \in Nat  BY <1>6 DEF Slots, IInv, TypeOK
    <3> HIDE DEF Filled
    <3> QED  BY <3>1, OneMore, ArgumentsAssumption
  <2>2. file_pos' = offset' + Filled' * Blocksize
    BY <1>1, <1>3, <1>7, <2>1, ArgumentsAssumption
  <2>3. thread_pc' = "reading" => After(write_buffer') # read_buffer'
    BY <1>3, <1>4
  <2> QED  BY <1>1, <1>3, <1>4, <2>2, <2>3 DEF IInv, ReaderPosition, After
<1>14. InOrder'
  BY <1>1, <1>3, <1>4 DEF IInv, InOrder
<1> QED  BY <1>4, <1>9, <1>10, <1>11, <1>12, <1>13, <1>14 DEF IInv

LEMMA StutterStep == ASSUME IInv, UNCHANGED vars PROVE IInv'
<1>1. UNCHANGED <<done, read_buffer, write_buffer, offset, count, buffer, file_pos,
                  file, thread_pc, client_pc, held, answer, delivered, ended,
                  failed>>
  BY DEF vars, struct, history
<1>2. RingContents' /\ Filled' = Filled  BY <1>1, SameRing DEF IInv
<1>3. TypeOK' /\ FreshStart'  BY <1>1 DEF IInv, TypeOK, FreshStart
<1>4. ReaderPosition'  BY <1>1, <1>2 DEF IInv, ReaderPosition, After
<1>5. HeldSlot' /\ InOrder' /\ (thread_pc' = "exited" => file' = "closed")
  BY <1>1 DEF IInv, HeldSlot, InOrder, Before
<1> QED  BY <1>2, <1>3, <1>4, <1>5 DEF IInv

LEMMA NextIInv == IInv /\ [Next]_vars => IInv'
<1> SUFFICES ASSUME IInv, [Next]_vars PROVE IInv'  OBVIOUS
<1>1. CASE New  BY <1>1, NewStep
<1>2. CASE CallGet \/ GetWaits \/ GetReturnsNull \/ Offset \/ Destroy  BY <1>2, ClientStep
<1>3. CASE GetReturnsBlock  BY <1>3, TakeStep
<1>4. CASE Free  BY <1>4, FreeStep
<1>5. CASE Seek  BY <1>5, SeekStep
<1>6. CASE ReadBlock  BY <1>6, ReadBlockStep
<1>7. CASE RetryWait  BY <1>7, RetryWaitStep
<1>8. CASE ReadFails \/ Leave \/ SpuriousWakeup  BY <1>8, QuietThreadStep
<1>9. CASE UNCHANGED vars  BY <1>9, StutterStep
<1> QED  BY <1>1, <1>2, <1>3, <1>4, <1>5, <1>6, <1>7, <1>8, <1>9
         DEF Next, Thread, Client, Get, Over

\* The inductive invariant: the ring between the read and the write position
\* holds the consecutive blocks of the file that follow the last one returned.
THEOREM Invariance == Spec => []IInv
BY InitIInv, NextIInv, PTL DEF Spec

\* Type correctness, and the ring indices stay inside the ring.
THEOREM TypeCorrect == Spec => []TypeOK
<1>1. IInv => TypeOK  BY DEF IInv
<1> QED  BY <1>1, Invariance, PTL

\* blockreader_get gives the blocks of the file in order, each exactly once,
\* for every ring of two slots or more, whatever fails.
THEOREM BlocksInOrder == Spec => []InOrder
<1>1. IInv => InOrder  BY DEF IInv
<1> QED  BY <1>1, Invariance, PTL

\* The block the client holds is not overwritten before its next call.
THEOREM PointerStaysValid == Spec => []HeldBlockIntact
<1>1. IInv => HeldBlockIntact  BY DEF IInv, HeldSlot, HeldBlockIntact
<1> QED  BY <1>1, Invariance, PTL

\* Of a file that can be seeked no wakeup is ever missed.
THEOREM NoWakeupLost ==
  ASSUME SeekMayFail = FALSE
  PROVE  Spec => []NoLostWakeup
<1>1. Init => NoLostWakeup  BY DEF Init, NoLostWakeup
<1>2. IInv /\ NoLostWakeup /\ [Next]_vars => NoLostWakeup'
  <2> SUFFICES ASSUME IInv, NoLostWakeup, [Next]_vars PROVE NoLostWakeup'  OBVIOUS
  <2> USE DEF NoLostWakeup
  <2>1. CASE UNCHANGED vars
    BY <2>1 DEF vars, struct, history, Full
  <2>2. CASE New  BY <2>2 DEF New
  <2>3. CASE CallGet \/ Offset \/ GetWaits
    BY <2>3 DEF CallGet, Offset, GetWaits, struct, Full
  <2>4. CASE GetReturnsBlock \/ GetReturnsNull \/ Destroy
    BY <2>4 DEF GetReturnsBlock, GetReturnsNull, Destroy, WakeThread
  <2>5. CASE Free  BY <2>5 DEF Free, struct, Full
  <2>6. CASE Seek
    <3>1. done' = done  BY <2>6 DEF Seek, IInv, TypeOK
    <3> QED  BY <2>6, <3>1 DEF Seek, LoopHead, Full
  <2>7. CASE ReadBlock
    BY <2>7 DEF ReadBlock, WaitForSlot, LoopHead, WakeClient
  <2>8. CASE ReadFails  BY <2>8 DEF ReadFails, WakeClient
  <2>9. CASE RetryWait
    BY <2>9 DEF RetryWait, WaitForSlot, LoopHead, struct
  <2>10. CASE Leave \/ SpuriousWakeup
    BY <2>10 DEF Leave, SpuriousWakeup, struct, Full
  <2> QED  BY <2>1, <2>2, <2>3, <2>4, <2>5, <2>6, <2>7, <2>8, <2>9, <2>10
           DEF Next, Thread, Client, Get, Over
<1> QED  BY <1>1, <1>2, Invariance, PTL DEF Spec

-----------------------------------------------------------------------------
(* The ring and its thread against the stream of BlockStream.               *)

\* Blocks read from the file so far.
BlocksRead == Len(delivered) + Filled

\* The client is not tearing the reader down.
InUse == client_pc \notin {"joining", "freed"}

\* What the end of the reading has to do with the blocks read: unless it
\* failed, the thread of a reader in use leaves after exactly Limit blocks.
ReadingEnds ==
  /\ BlocksRead <= Limit
  /\ client_pc # "none" => count = Count - BlocksRead
  /\ thread_pc = "reading" => count > 0 \/ BlocksRead = 0
  /\ done /\ InUse => thread_pc \in {"leaving", "exited"}
  /\ failed => thread_pc \in {"leaving", "exited"}
  /\ thread_pc \in {"leaving", "exited"} /\ ~failed /\ InUse => BlocksRead = Limit
  /\ ended => thread_pc \in {"leaving", "exited"} /\ Filled = 0

RInv == IInv /\ ReadingEnds

\* The remainder counts the slots from one position on to another.
LEMMA Distance ==
  ASSUME NEW r \in Slots, NEW w \in Slots
  PROVE  /\ (w - r) % BufferCount = IF r <= w THEN w - r ELSE w - r + BufferCount
         /\ (w - r) % BufferCount \in Nat
<1>1. /\ BufferCount \in Nat /\ BufferCount >= 2
      /\ r \in Nat /\ w \in Nat /\ r < BufferCount /\ w < BufferCount
  BY ArgumentsAssumption DEF Slots
<1>2. \A x \in Int : 0 <= x /\ x < BufferCount => x % BufferCount = x
  BY <1>1
<1>3. \A x \in Int : -BufferCount < x /\ x < 0 => x % BufferCount = x + BufferCount
  BY <1>1
<1> QED  BY <1>1, <1>2, <1>3

LEMMA BacklogIsFilled ==
  ASSUME TypeOK
  PROVE  Backlog = Filled /\ Filled \in Nat /\ (Filled = 0 <=> read_buffer = write_buffer)
<1>1. read_buffer \in Slots /\ write_buffer \in Slots  BY DEF TypeOK
<1>2. Backlog = Filled  BY <1>1, Distance DEF Backlog, Filled
<1> QED  BY <1>1, <1>2, ArgumentsAssumption DEF Filled, Slots

\* Multiples of the block size are ordered as their factors.
LEMMA MultiplesOrdered ==
  \A x, y \in Int : x < y => x * Blocksize + Blocksize <= y * Blocksize
<1> SUFFICES ASSUME NEW x \in Int, NEW y \in Int, x < y
             PROVE  x * Blocksize + Blocksize <= y * Blocksize
  OBVIOUS
<1>1. Blocksize \in Nat /\ Blocksize > 0  BY ArgumentsAssumption
<1>2. (y - (x + 1)) * Blocksize >= 0  BY <1>1
<1>3. y * Blocksize = (y - (x + 1)) * Blocksize + x * Blocksize + Blocksize
  BY <1>1
<1> QED  BY <1>1, <1>2, <1>3

\* Another block can be read exactly when fewer than BlocksInFile were read.
LEMMA WholeBlocks ==
  /\ BlocksInFile \in Nat
  /\ \A n \in Nat : n <= BlocksInFile =>
       (StartOffset + n * Blocksize + Blocksize <= FileLength <=> n < BlocksInFile)
<1>1. /\ Blocksize \in Nat /\ Blocksize > 0
      /\ StartOffset \in Nat /\ FileLength \in Nat
  BY ArgumentsAssumption
<1>2. CASE FileLength < StartOffset
  <2>1. \A n \in Nat : n * Blocksize >= 0  BY <1>1
  <2> QED  BY <1>1, <1>2, <2>1 DEF BlocksInFile
<1>3. CASE FileLength >= StartOffset
  <2> DEFINE a == FileLength - StartOffset
             q == a \div Blocksize
  <2>1. a \in Nat /\ q \in Int  BY <1>1, <1>3
  <2>2. q * Blocksize <= a /\ a < q * Blocksize + Blocksize
    BY <1>1, <2>1, SMTT(30)
  <2>3. BlocksInFile = q  BY <1>1, <1>3 DEF BlocksInFile
  <2>4. a = FileLength - StartOffset  OBVIOUS
  <2> HIDE DEF q, a
  <2>5. \A n \in Int : n * Blocksize \in Int  BY <1>1
  <2>6. q >= 0
    <3> SUFFICES ASSUME q < 0 PROVE FALSE  BY <2>1
    <3>1. q * Blocksize + Blocksize <= 0 * Blocksize  BY <2>1, MultiplesOrdered
    <3> QED  BY <1>1, <2>1, <2>2, <2>5, <3>1
  <2>7. ASSUME NEW n \in Nat, n < q
        PROVE  StartOffset + n * Blocksize + Blocksize <= FileLength
    BY <1>1, <2>1, <2>2, <2>4, <2>5, <2>7, MultiplesOrdered
  <2> QED  BY <1>1, <2>1, <2>2, <2>3, <2>4, <2>5, <2>6, <2>7
<1> QED  BY <1>1, <1>2, <1>3

LEMMA LimitType == Limit \in Nat /\ Limit <= BlocksInFile
BY ArgumentsAssumption, WholeBlocks DEF Limit

\* Taking a block out, and reading one in.
LEMMA TakeCounts ==
  ASSUME IInv, GetReturnsBlock
  PROVE  /\ Filled >= 1 /\ Filled' = Filled - 1
         /\ Len(delivered') = Len(delivered) + 1
         /\ delivered' = Append(delivered, StartOffset + Len(delivered) * Blocksize)
<1>1. /\ read_buffer' = After(read_buffer) /\ read_buffer \in Slots
      /\ write_buffer' = write_buffer /\ write_buffer \in Slots
      /\ read_buffer # write_buffer /\ client_pc = "get"
      /\ delivered' = Append(delivered, buffer[read_buffer])
      /\ delivered \in Seq(Nat) /\ offset \in Nat
  BY NextSlot DEF IInv, TypeOK, GetReturnsBlock
<1>2. Filled >= 1 /\ Filled' = Filled - 1
  BY <1>1, ArgumentsAssumption DEF Filled, After, Slots
<1>3. SlotAt(0) = read_buffer /\ 0 \in Slots  BY RingSlots, ArgumentsAssumption DEF IInv, Slots
<1>4. buffer[read_buffer] = offset + 0 * Blocksize
  <2>1. 0 < Filled  BY <1>1, <1>2, ArgumentsAssumption DEF Filled, Slots
  <2> QED  BY <1>3, <2>1 DEF IInv, RingContents
<1>5. offset = StartOffset + Len(delivered) * Blocksize
  BY <1>1 DEF IInv, ReaderPosition
<1>6. 0 * Blocksize = 0  BY ArgumentsAssumption
<1>7. delivered' = Append(delivered, offset)  BY <1>1, <1>4, <1>6
<1> QED  BY <1>1, <1>2, <1>5, <1>7

LEMMA ReadCounts ==
  ASSUME IInv, ReadBlock
  PROVE  Filled' = Filled + 1
<1>1. /\ After(write_buffer) # read_buffer /\ read_buffer' = read_buffer
      /\ write_buffer' = After(write_buffer)
      /\ read_buffer \in Slots /\ write_buffer \in Slots
  BY NextSlot DEF IInv, TypeOK, ReaderPosition, ReadBlock
<1> QED  BY <1>1, ArgumentsAssumption DEF Filled, After, Slots

LEMMA InitReadingEnds == Init => ReadingEnds
<1> SUFFICES ASSUME Init PROVE ReadingEnds  OBVIOUS
<1>1. BlocksRead = 0  BY DEF Init, BlocksRead, Filled
<1> QED  BY <1>1, LimitType DEF Init, ReadingEnds

\* While the thread reads, the FILE is behind the blocks read.
LEMMA FileBehind ==
  ASSUME IInv, thread_pc = "reading"
  PROVE  /\ BlocksRead \in Nat
         /\ file_pos = StartOffset + BlocksRead * Blocksize
<1>1. /\ Filled \in Nat /\ Len(delivered) \in Nat
      /\ client_pc # "none"
  BY BacklogIsFilled DEF IInv, TypeOK, FreshStart
<1>2. file_pos = (StartOffset + Len(delivered) * Blocksize) + Filled * Blocksize
  BY <1>1 DEF IInv, ReaderPosition
<1>3. \A i, j \in Nat : /\ (i + j) * Blocksize = i * Blocksize + j * Blocksize
                        /\ i * Blocksize \in Int
  BY ArgumentsAssumption
<1> QED  BY <1>1, <1>2, <1>3, ArgumentsAssumption DEF BlocksRead

\* What a step does to the counts, in the variables ReadingEnds speaks of.
LEMMA StepReadingEnds == RInv /\ [Next]_vars => ReadingEnds'
<1> SUFFICES ASSUME RInv, [Next]_vars PROVE ReadingEnds'  OBVIOUS
<1> DEFINE n == BlocksRead
<1>0. /\ IInv /\ TypeOK /\ ReadingEnds /\ Limit \in Nat /\ Limit <= BlocksInFile
      /\ Filled \in Nat /\ Len(delivered) \in Nat /\ n \in Nat
      /\ n = Len(delivered) + Filled
      /\ Filled = 0 <=> read_buffer = write_buffer
  BY LimitType, BacklogIsFilled DEF RInv, IInv, TypeOK, BlocksRead
<1>1. CASE New
  <2>1. Filled' = 0 /\ delivered' = <<>> /\ n = 0
    BY <1>1, <1>0 DEF New, history, Filled, IInv, FreshStart, BlocksRead
  <2>2. UNCHANGED <<delivered, ended, failed>> /\ Filled = 0  BY <1>1, <1>0, <2>1 DEF New, history
  <2> QED  BY <1>0, <1>1, <2>1, <2>2, ArgumentsAssumption
           DEF New, ReadingEnds, BlocksRead, IInv, FreshStart
<1>2. CASE CallGet \/ GetWaits \/ Offset \/ Destroy \/ Free \/ Leave \/ SpuriousWakeup
           \/ UNCHANGED vars
  <2>1. /\ UNCHANGED <<read_buffer, write_buffer, count, delivered, ended, failed>>
        /\ done' = done \/ (done' = TRUE /\ ~InUse')
        /\ \/ thread_pc' = thread_pc
           \/ thread_pc = "waiting" /\ thread_pc' = "woken"
           \/ thread_pc = "leaving" /\ thread_pc' = "exited"
        /\ client_pc' # "none" => client_pc # "none"
        /\ InUse' => InUse
    BY <1>2 DEF CallGet, GetWaits, Offset, Destroy, Free, Leave, SpuriousWakeup,
                vars, struct, history, WakeThread, InUse
  <2>2. Filled' = Filled /\ BlocksRead' = BlocksRead  BY <2>1 DEF Filled, BlocksRead
  <2> QED  BY <1>0, <2>1, <2>2 DEF ReadingEnds
<1>3. CASE GetReturnsNull
  <2>1. /\ UNCHANGED <<read_buffer, write_buffer, done, count, delivered, failed>>
        /\ client_pc = "get" /\ client_pc' = "idle" /\ done /\ read_buffer = write_buffer
        /\ thread_pc' = thread_pc \/ (thread_pc = "waiting" /\ thread_pc' = "woken")
    BY <1>3 DEF GetReturnsNull, struct, WakeThread
  <2>2. Filled' = Filled /\ BlocksRead' = BlocksRead  BY <2>1 DEF Filled, BlocksRead
  <2>3. thread_pc \in {"leaving", "exited"} /\ thread_pc' = thread_pc /\ Filled = 0
    BY <1>0, <2>1 DEF ReadingEnds, InUse
  <2> QED  BY <1>0, <2>1, <2>2, <2>3 DEF ReadingEnds, InUse
<1>4. CASE GetReturnsBlock
  <2>1. BlocksRead' = BlocksRead /\ Filled # 0
    BY <1>0, <1>4, TakeCounts DEF BlocksRead
  <2>2. /\ UNCHANGED <<done, count, ended, failed>>
        /\ client_pc = "get" /\ client_pc' = "idle"
        /\ thread_pc' = thread_pc \/ (thread_pc = "waiting" /\ thread_pc' = "woken")
    BY <1>4 DEF GetReturnsBlock, WakeThread
  <2> QED  BY <1>0, <2>1, <2>2 DEF ReadingEnds, InUse
<1>5. CASE Seek
  <2>1. /\ UNCHANGED <<read_buffer, write_buffer, count, delivered, ended, client_pc>>
        /\ thread_pc = "created" /\ BlocksRead = 0
    BY <1>0, <1>5 DEF Seek, IInv, FreshStart, Filled, BlocksRead
  <2>2. BlocksRead' = BlocksRead /\ Filled' = Filled  BY <2>1 DEF Filled, BlocksRead
  <2>3. done /\ InUse => FALSE  BY <1>0, <2>1 DEF ReadingEnds
  <2>4. \/ thread_pc' = "leaving" /\ done' /\ (failed' \/ done)
        \/ thread_pc' = "reading" /\ ~done' /\ ~failed'
    <3>1. PICK fails \in BOOLEAN : /\ done' = (done \/ fails) /\ failed' = fails
                                   /\ LoopHead(done', write_buffer, buffer)
      BY <1>5 DEF Seek
    <3> QED  BY <3>1 DEF LoopHead
  <2> QED  BY <1>0, <2>1, <2>2, <2>3, <2>4 DEF ReadingEnds, InUse
<1>6. CASE ReadBlock
  <2>1. /\ thread_pc = "reading" /\ count' = count - 1 /\ count \in Int
        /\ file_pos + Blocksize <= FileLength
        /\ UNCHANGED <<delivered, ended, failed>>
        /\ client_pc # "none" /\ client_pc' # "none" /\ InUse' = InUse
    BY <1>0, <1>6 DEF ReadBlock, history, TypeOK, IInv, FreshStart, WakeClient, InUse
  <2>2. BlocksRead' = n + 1 /\ Filled' = Filled + 1
    BY <1>0, <1>6, <2>1, ReadCounts DEF BlocksRead
  <2>3. n < BlocksInFile
    <3>1. file_pos = StartOffset + n * Blocksize  BY <1>0, <2>1, FileBehind
    <3> HIDE DEF n
    <3>2. n <= BlocksInFile  BY <1>0, LimitType, WholeBlocks DEF ReadingEnds, n
    <3> QED  BY <1>0, <2>1, <3>1, <3>2, WholeBlocks
  <2>4. count = Count - n /\ (count > 0 \/ n = 0) /\ ~failed /\ ~ended
    BY <1>0, <2>1 DEF ReadingEnds
  <2>5. n + 1 <= Limit /\ (count' <= 0 => n + 1 = Limit)
    BY <1>0, <2>1, <2>3, <2>4, WholeBlocks, ArgumentsAssumption DEF Limit
  <2>6. /\ done' <=> (done \/ count' <= 0)
        /\ \/ thread_pc' = "leaving" /\ done'
           \/ thread_pc' = "waiting" /\ ~done'
           \/ thread_pc' = "reading" /\ ~done'
    <3>1. done' = (done \/ count - 1 <= 0)  BY <1>6 DEF ReadBlock
    <3>2. \E w, r : WaitForSlot(done', w, count - 1, r)  BY <1>6 DEF ReadBlock
    <3>3. \/ thread_pc' = "leaving" /\ done'
          \/ thread_pc' = "waiting" /\ ~done'
          \/ thread_pc' = "reading" /\ ~done'
      BY <3>2 DEF WaitForSlot, LoopHead
    <3> QED  BY <2>1, <3>1, <3>3
  <2>7. done /\ InUse => FALSE  BY <1>0, <2>1 DEF ReadingEnds
  <2>8. ~done' => count' > 0  BY <2>1, <2>6
  <2> HIDE DEF n
  <2> QED  BY <1>0, <2>1, <2>2, <2>4, <2>5, <2>6, <2>7, <2>8, ArgumentsAssumption
           DEF ReadingEnds
<1>7. CASE ReadFails
  <2>1. /\ thread_pc = "reading" /\ thread_pc' = "leaving"
        /\ UNCHANGED <<read_buffer, write_buffer, count, delivered, ended>>
        /\ client_pc # "none" /\ client_pc' # "none" /\ InUse' = InUse
        /\ failed' <=> file_pos + Blocksize <= FileLength
    BY <1>0, <1>7 DEF ReadFails, IInv, FreshStart, WakeClient, InUse
  <2>2. Filled' = Filled /\ BlocksRead' = n  BY <2>1 DEF Filled, BlocksRead
  <2>3. ~failed' => n = Limit
    <3>1. file_pos = StartOffset + n * Blocksize  BY <1>0, <2>1, FileBehind
    <3>2. n <= Limit  BY <1>0 DEF ReadingEnds
    <3> HIDE DEF n
    <3> QED  BY <1>0, <2>1, <3>1, <3>2, WholeBlocks
  <2>4. ~ended  BY <1>0, <2>1 DEF ReadingEnds
  <2> QED  BY <1>0, <2>1, <2>2, <2>3, <2>4 DEF ReadingEnds
<1>8. CASE RetryWait
  <2>1. /\ thread_pc = "woken"
        /\ UNCHANGED <<read_buffer, write_buffer, done, count, delivered, ended, failed, client_pc>>
    BY <1>8 DEF RetryWait, struct, history
  <2>2. BlocksRead' = BlocksRead /\ Filled' = Filled  BY <2>1 DEF Filled, BlocksRead
  <2>3. count > 0  BY <1>0, <2>1 DEF IInv, ReaderPosition
  <2>4. /\ thread_pc' \in {"waiting", "reading", "leaving"}
        /\ thread_pc' = "leaving" => done
    BY <1>8 DEF RetryWait, WaitForSlot, LoopHead
  <2> QED  BY <1>0, <2>1, <2>2, <2>3, <2>4 DEF ReadingEnds, InUse
<1> QED  BY <1>1, <1>2, <1>3, <1>4, <1>5, <1>6, <1>7, <1>8
         DEF Next, Thread, Client, Get, Over

\* Initially nothing was given of all the Limit blocks.
LEMMA StreamInit == Init => Stream!Init
BY DEF Init, Stream!Init

\* A step of the reader is a step of the stream or changes nothing of it.
LEMMA StreamStep == RInv /\ RInv' /\ [Next]_vars => [Stream!Next]_(Stream!streamVars)
<1> SUFFICES ASSUME RInv, RInv', [Next]_vars
             PROVE  [Stream!Next]_(Stream!streamVars)
  OBVIOUS
<1> DEFINE asking == client_pc \in {"get", "waiting"}
           readable == IF failed THEN Len(delivered) + Backlog ELSE Limit
<1>0. /\ IInv /\ TypeOK /\ ReadingEnds /\ Limit \in Nat
      /\ Backlog = Filled /\ Filled \in Nat /\ Len(delivered) \in Nat
      /\ Backlog' = Filled' /\ Filled' \in Nat
      /\ Filled = 0 <=> read_buffer = write_buffer
  <2>1. TypeOK /\ TypeOK'  BY DEF RInv, IInv
  <2>2. read_buffer' \in Slots /\ write_buffer' \in Slots  BY <2>1 DEF TypeOK
  <2>3. Backlog' = Filled'
    <3>1. (write_buffer' - read_buffer') % BufferCount
            = IF read_buffer' <= write_buffer' THEN write_buffer' - read_buffer'
              ELSE write_buffer' - read_buffer' + BufferCount
      BY <2>2, Distance
    <3> QED  BY <3>1 DEF Backlog, Filled
  <2>4. Filled' \in Nat
    <3>1. (write_buffer' - read_buffer') % BufferCount \in Nat  BY <2>2, Distance
    <3> QED  BY <2>3, <3>1 DEF Backlog
  <2> QED  BY <2>1, <2>3, <2>4, LimitType, BacklogIsFilled DEF RInv, TypeOK
<1>1. CASE UNCHANGED <<read_buffer, write_buffer, delivered, ended, failed, asking>>
  BY <1>1 DEF Stream!streamVars, Backlog
<1>2. CASE CallGet
  <2>1. /\ ~asking /\ asking' /\ UNCHANGED <<delivered, ended, failed, Backlog>>
    BY <1>2 DEF CallGet, struct, history, Backlog
  <2> QED  BY <2>1 DEF Stream!Next, Stream!Ask
<1>3. CASE GetReturnsBlock
  <2>1. /\ asking /\ ~asking' /\ UNCHANGED <<ended, failed>>
    BY <1>3 DEF GetReturnsBlock
  <2>2. /\ Filled >= 1 /\ Filled' = Filled - 1
        /\ Len(delivered') = Len(delivered) + 1
        /\ delivered' = Append(delivered, StartOffset + Len(delivered) * Blocksize)
    BY <1>0, <1>3, TakeCounts
  <2>3. ~ended /\ Len(delivered) < readable
    BY <1>0, <2>2 DEF ReadingEnds, BlocksRead
  <2>4. readable' = readable  BY <1>0, <2>1, <2>2
  <2> QED  BY <2>1, <2>2, <2>3, <2>4 DEF Stream!Next, Stream!Deliver
<1>4. CASE GetReturnsNull
  <2>1. /\ asking /\ ~asking' /\ ended' = TRUE
        /\ UNCHANGED <<delivered, failed, Backlog>>
        /\ read_buffer = write_buffer /\ done /\ InUse
    BY <1>4 DEF GetReturnsNull, struct, Backlog, InUse
  <2>2. Len(delivered) = readable
    BY <1>0, <2>1 DEF ReadingEnds, BlocksRead
  <2> QED  BY <2>1, <2>2 DEF Stream!Next, Stream!End
<1>5. CASE ~failed /\ failed' /\ UNCHANGED <<read_buffer, write_buffer, delivered, ended, asking>>
  <2>1. readable = Limit /\ readable' = BlocksRead /\ UNCHANGED <<delivered, ended, asking>>
    BY <1>0, <1>5 DEF BlocksRead, Filled
  <2>2. readable' \in Len(delivered) .. Limit
    BY <1>0, <2>1 DEF ReadingEnds, BlocksRead
  <2> QED  BY <2>1, <2>2 DEF Stream!Next, Stream!Break
<1>6. CASE New
  <2>1. /\ UNCHANGED <<delivered, ended, failed, asking>> /\ ~failed
    BY <1>0, <1>6 DEF New, history, IInv, FreshStart, ReadingEnds
  <2> QED  BY <2>1 DEF Stream!streamVars
<1>7. CASE ReadBlock
  <2>1. /\ UNCHANGED <<delivered, ended, failed, asking>> /\ ~failed
    BY <1>0, <1>7 DEF ReadBlock, history, WakeClient, ReadingEnds
  <2> QED  BY <2>1 DEF Stream!streamVars
<1>8. CASE Seek \/ ReadFails
  <2>a. UNCHANGED <<read_buffer, write_buffer, delivered, ended>>
    BY <1>8 DEF Seek, ReadFails
  <2>b. ~failed  BY <1>0, <1>8 DEF Seek, ReadFails, ReadingEnds
  <2>c. asking' = asking
    <3>1. CASE Seek  BY <3>1 DEF Seek
    <3>2. CASE ReadFails  BY <3>2 DEF ReadFails, WakeClient
    <3> QED  BY <1>8, <3>1, <3>2
  <2>1. /\ UNCHANGED <<read_buffer, write_buffer, delivered, ended, asking>> /\ ~failed
    BY <2>a, <2>b, <2>c
  <2>2. failed' \in BOOLEAN /\ failed \in BOOLEAN  BY DEF RInv, IInv, TypeOK
  <2>3. CASE failed'  BY <1>5, <2>1, <2>3
  <2>4. CASE ~failed'
    <3>1. failed' = failed  BY <2>1, <2>2, <2>4
    <3> QED  BY <1>1, <2>1, <3>1
  <2> QED  BY <2>3, <2>4
<1>9. CASE \/ GetWaits \/ Offset \/ Destroy \/ Free \/ Leave \/ SpuriousWakeup
           \/ RetryWait \/ UNCHANGED vars
  BY <1>1, <1>9 DEF GetWaits, Offset, Destroy, Free, Leave, SpuriousWakeup, RetryWait,
                    vars, struct, history
<1> QED  BY <1>2, <1>3, <1>4, <1>6, <1>7, <1>8, <1>9
         DEF Next, Thread, Client, Get, Over

\* The ring and the thread give what the plain stream of blocks gives: the
\* safety part of ImplementsStream, for every file and every failure.
THEOREM StreamRefined ==
  Spec => Stream!Init /\ [][Stream!Next]_(Stream!streamVars)
<1>1. Init => RInv  BY InitIInv, InitReadingEnds DEF RInv
<1>2. RInv /\ [Next]_vars => RInv'
  BY NextIInv, StepReadingEnds DEF RInv
<1> QED  BY <1>1, <1>2, StreamInit, StreamStep, PTL DEF Spec

=============================================================================
