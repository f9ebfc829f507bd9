------------------------------ MODULE FourSlot ------------------------------
(***************************************************************************)
(* The four slots of four_slot_sc.hpp: one writer hands the latest value   *)
(* to one reader, and neither waits.  A value is a pair, as in             *)
(* four_slot-test.cpp, whose halves are written and read one by one; the   *)
(* value of the n-th write has n in both.  The constructor initialises no  *)
(* index, so they begin as what the memory held; of that, only the values  *)
(* that are indices of the array are considered.                           *)
(***************************************************************************)
EXTENDS Naturals

CONSTANTS Memory,     \* what the memory may have held: [slot, latest, reading, next]
          MaxWrites   \* bound: the number of writes

Bit == {0, 1}
ASSUME MemoryAssumption ==
  Memory \subseteq [slot : [Bit -> Bit], latest : Bit, reading : Bit, next : Bit]
ASSUME MaxWritesAssumption == MaxWrites \in Nat

VARIABLES
  cell,                   \* data_: the halves of the value in each slot
  slot, latest, reading,  \* as in the code
  next,                   \* next_
  writeLoc,               \* write_loc_, as the two indices
  writer, written,        \* where the writer is, and how many writes returned
  reader, readLoc,        \* where the reader is, and the slot it reads
  value,                  \* what it read
  begun, last             \* history variables: written when the read began,
                          \* and the value of the read before

indices == <<slot, latest, reading, next, writeLoc>>
writing == <<writer, written>>
readVars == <<reader, readLoc, value, begun, last>>
slotVars == <<cell, indices, writing, readVars>>

Nothing == [first |-> 0, second |-> 0]

SlotInit ==
  /\ cell = [loc \in Bit \X Bit |-> Nothing]
  /\ \E m \in Memory : /\ slot = m.slot /\ latest = m.latest
                       /\ reading = m.reading /\ next = m.next
  /\ writeLoc = <<1, 0>>
  /\ writer = "first" /\ written = 0
  /\ reader = "latest" /\ readLoc = <<0, 0>> /\ value = Nothing
  /\ begun = 0 /\ last = 0

WriterAt(label) == writer' = label
ReaderAt(label) == reader' = label

(* write(t): write_ref() = t, *)
WriteFirst ==
  /\ writer = "first"
  /\ written < MaxWrites
  /\ cell' = [cell EXCEPT ![writeLoc].first = written + 1]
  /\ WriterAt("second")
  /\ UNCHANGED <<indices, written, readVars>>

WriteSecond ==
  /\ writer = "second"
  /\ cell' = [cell EXCEPT ![writeLoc].second = written + 1]
  /\ WriterAt("slot")
  /\ UNCHANGED <<indices, written, readVars>>

(* and write().  Nobody else writes slot_, latest_ and next_. *)
FlipSlot ==
  /\ writer = "slot"
  /\ slot' = [slot EXCEPT ![next] = 1 - @]
  /\ WriterAt("latest")
  /\ UNCHANGED <<cell, latest, reading, next, writeLoc, written, readVars>>

StoreLatest ==
  /\ writer = "latest"
  /\ latest' = next
  /\ WriterAt("next")
  /\ UNCHANGED <<cell, slot, reading, next, writeLoc, written, readVars>>

ChooseLatest ==  \* mutant: the pair that was not written last
  /\ writer = "next"
  /\ next' = 1 - latest
  /\ writeLoc' = <<1 - latest, 1 - slot[1 - latest]>>
  /\ WriterAt("first")
  /\ written' = written + 1
  /\ UNCHANGED <<cell, slot, latest, reading, readVars>>

(* The next value goes to the pair that is not being read, and there to    *)
(* the slot that was not written last.                                     *)
ChooseNext ==
  /\ writer = "next"
  /\ next' = 1 - reading
  /\ writeLoc' = <<1 - reading, 1 - slot[1 - reading]>>
  /\ WriterAt("first")
  /\ written' = written + 1
  /\ UNCHANGED <<cell, slot, latest, reading, readVars>>

-----------------------------------------------------------------------------
(* read *)
ReadLatest ==
  /\ reader = "latest"
  /\ readLoc' = <<latest, 0>>
  /\ begun' = written
  /\ ReaderAt("reading")
  /\ UNCHANGED <<cell, indices, writing, value, last>>

ReadingUnannounced ==  \* mutant: reading_ is not stored
  /\ reader = "reading"
  /\ ReaderAt("slot")
  /\ UNCHANGED <<cell, indices, writing, readLoc, value, begun, last>>

StoreReading ==
  /\ reader = "reading"
  /\ reading' = readLoc[1]
  /\ ReaderAt("slot")
  /\ UNCHANGED <<cell, slot, latest, next, writeLoc, writing, readLoc, value,
                 begun, last>>

ReadSlot ==
  /\ reader = "slot"
  /\ readLoc' = <<readLoc[1], slot[readLoc[1]]>>
  /\ ReaderAt("first")
  /\ UNCHANGED <<cell, indices, writing, value, begun, last>>

ReadFirst ==
  /\ reader = "first"
  /\ value' = [value EXCEPT !.first = cell[readLoc].first]
  /\ ReaderAt("second")
  /\ UNCHANGED <<cell, indices, writing, readLoc, begun, last>>

ReadSecond ==
  /\ reader = "second"
  /\ value' = [value EXCEPT !.second = cell[readLoc].second]
  /\ ReaderAt("got")
  /\ UNCHANGED <<cell, indices, writing, readLoc, begun, last>>

ReadAgain ==
  /\ reader = "got"
  /\ last' = value.first
  /\ ReaderAt("latest")
  /\ UNCHANGED <<cell, indices, writing, readLoc, value, begun>>

SlotNext ==
  \/ WriteFirst \/ WriteSecond \/ FlipSlot \/ StoreLatest \/ ChooseNext
  \/ ReadLatest \/ StoreReading \/ ReadSlot \/ ReadFirst \/ ReadSecond \/ ReadAgain

SlotSpec == SlotInit /\ [][SlotNext]_slotVars

-----------------------------------------------------------------------------
(* The memory on which the object works: an initial latest_ of 1 sends the *)
(* reader to the slot of the first write unless slot_[1] is 1.             *)
SafeMemory == \A m \in Memory : m.latest = 1 => m.slot[1] = 1

(* The halves of what was read belong to one write, as the assertion of    *)
(* four_slot-test.cpp says, on memory that is safe.                        *)
HalvesMatch == reader = "got" => value.first = value.second

(* On memory of zeros, what is read is no older than what was read before, *)
(* and no older than the last write that had returned; but the first write *)
(* goes to a slot that is not the one it then publishes, and is never seen.*)
ReadsLatest ==
  reader = "got" =>
    /\ value.first >= last
    /\ value.first >= IF begun = 1 THEN 0 ELSE begun
    /\ value.first # 1
=============================================================================
