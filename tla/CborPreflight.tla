---------------------------- MODULE CborPreflight ----------------------------
(***************************************************************************)
(* What is looked at before the codec may allocate for persisted bytes.    *)
(*                                                                         *)
(* The bytes of a record, or of the ledger within it, are walked without   *)
(* allocating: heads with definite lengths, bounded strings, bounded       *)
(* nesting, one value and nothing behind it.  The codec only runs on bytes *)
(* that pass; for a ledger it then reserves room for the advertised        *)
(* number of entries.                                                      *)
(*                                                                         *)
(* Bytes are numbers.  The recursion of the walk is the sequence left: how *)
(* many values each open container still wants, the outermost first.       *)
(***************************************************************************)
EXTENDS Integers, Sequences, SequencesExt

CONSTANTS
  Byte,           \* bytes that are entered
  MaxRecord,      \* MAX_LEDGER_RECORD_BYTES
  MaxPayload,     \* MAX_COMMITTED_PAYLOAD_BYTES, for a byte string
  MaxText,        \* DIAGNOSTIC_STRING_MAX_BYTES, for a text
  MaxNesting,     \* MAX_LEDGER_NESTING
  MaxAllocations  \* entries of a ledger

ASSUME CborAssumption ==
  /\ Byte \subseteq 0 .. 255
  /\ {MaxRecord, MaxPayload, MaxText, MaxNesting, MaxAllocations} \subseteq Nat

VARIABLES
  bytes,     \* the bytes entered so far
  use,       \* what they are read as: "record" or "ledger"
  pc,        \* "type", "walk", "decode", and at last "accepted" or "refused"
  pos,       \* bytes walked
  left,      \* values wanted by each open container
  reserved   \* entries that memory was reserved for

vars == <<bytes, use, pc, pos, left, reserved>>

-----------------------------------------------------------------------------
(***************************************************************************)
(* The head of a value, at position p of the bytes s counted from 1.       *)
(***************************************************************************)
Major(s, p) == s[p] \div 32

Info(s, p) == s[p] % 32

\* Bytes of the argument behind the head.
Width(s, p) == IF Info(s, p) < 24 THEN 0 ELSE <<1, 2, 4, 8>>[Info(s, p) - 23]

\* Heads of indefinite length, and heads without a meaning, are refused; so
\* is an argument that is cut off.
HeadIsWhole(s, p) ==
  /\ p <= Len(s)
  /\ Info(s, p) <= 27
  /\ p + Width(s, p) <= Len(s)

\* The argument, most significant byte first.
Argument(s, p) ==
  LET number[n \in 0 .. Width(s, p)] == IF n = 0 THEN 0 ELSE 256 * number[n - 1] + s[p + n]
  IN  IF Width(s, p) = 0 THEN Info(s, p) ELSE number[Width(s, p)]

\* Bytes that a string head announces.
StringLength(s, p) == IF Major(s, p) \in {2, 3} THEN Argument(s, p) ELSE 0

\* Values that a head announces: entries, keys and values, or what is tagged.
Children(s, p) ==
  CASE Major(s, p) = 4 -> Argument(s, p)
    [] Major(s, p) = 5 -> 2 * Argument(s, p)
    [] Major(s, p) = 6 -> 1
    [] OTHER -> 0

StringIsBounded(s, p) ==
  /\ Major(s, p) = 2 => Argument(s, p) <= MaxPayload
  /\ Major(s, p) = 3 => Argument(s, p) <= MaxText

-----------------------------------------------------------------------------
Init ==
  /\ bytes = <<>>
  /\ use \in {"record", "ledger"}
  /\ pc = "type"
  /\ pos = 0 /\ left = <<>> /\ reserved = 0

\* One more byte, until there is one too many.
Type(b) ==
  /\ pc = "type"
  /\ Len(bytes) <= MaxRecord
  /\ bytes' = Append(bytes, b)
  /\ UNCHANGED <<use, pc, pos, left, reserved>>

\* preflight begins; a ledger has to begin with an array, which a byte string
\* could pass for in the codec.
Start ==
  /\ pc = "type"
  /\ IF /\ Len(bytes) <= MaxRecord
        /\ use = "ledger" => bytes # <<>> /\ Major(bytes, 1) = 4
     THEN pc' = "walk" /\ left' = <<1>>
     ELSE pc' = "refused" /\ UNCHANGED left
  /\ UNCHANGED <<bytes, use, pos, reserved>>

\* Mutant: a container has to leave a byte behind its entries.
AdmittedMutant ==
  LET p == pos + 1
      rest == Len(bytes) - p - Width(bytes, p)
  IN  /\ Len(left) <= MaxNesting + 1
      /\ HeadIsWhole(bytes, p)
      /\ StringIsBounded(bytes, p)
      /\ StringLength(bytes, p) <= rest
      /\ Major(bytes, p) \in {4, 5} => Children(bytes, p) = 0 \/ Children(bytes, p) < rest

\* The next head may be walked: its string is there, and there are at least
\* as many bytes as it announces entries.
Admitted ==
  LET p == pos + 1
      rest == Len(bytes) - p - Width(bytes, p)
  IN  /\ Len(left) <= MaxNesting + 1
      /\ HeadIsWhole(bytes, p)
      /\ StringIsBounded(bytes, p)
      /\ StringLength(bytes, p) <= rest
      /\ Major(bytes, p) \in {4, 5} => Children(bytes, p) <= rest

\* One call of value, up to its own calls.
Value ==
  /\ pc = "walk"
  /\ left # <<>> /\ Last(left) > 0
  /\ IF Admitted
     THEN LET p == pos + 1
          IN  /\ pos' = p + Width(bytes, p) + StringLength(bytes, p)
              /\ left' = Append([left EXCEPT ![Len(left)] = @ - 1], Children(bytes, p))
              /\ UNCHANGED pc
     ELSE pc' = "refused" /\ UNCHANGED <<pos, left>>
  /\ UNCHANGED <<bytes, use, reserved>>

\* A call of value returns: its container has all its entries.
Return ==
  /\ pc = "walk"
  /\ left # <<>> /\ Last(left) = 0
  /\ left' = Front(left)
  /\ UNCHANGED <<bytes, use, pc, pos, reserved>>

\* Nothing may follow.
Exact ==
  /\ pc = "walk"
  /\ left = <<>>
  /\ pc' = IF pos # Len(bytes) THEN "refused"
           ELSE IF use = "ledger" THEN "decode" ELSE "accepted"
  /\ UNCHANGED <<bytes, use, pos, left, reserved>>

\* deserialize_records: an array that is too long is refused by its head; of
\* the others, room for the entries is reserved, and for one to be staged.
Reserve ==
  /\ pc = "decode"
  /\ LET entries == Argument(bytes, 1)
     IN  IF entries > MaxAllocations
         THEN pc' = "refused" /\ UNCHANGED reserved
         ELSE /\ pc' = "accepted"
              /\ reserved' = IF entries = 0 THEN 0
                             ELSE IF entries + 1 <= MaxAllocations THEN entries + 1
                             ELSE MaxAllocations
  /\ UNCHANGED <<bytes, use, pos, left>>

Next == (\E b \in Byte : Type(b)) \/ Start \/ Value \/ Return \/ Exact \/ Reserve

Spec == Init /\ [][Next]_vars

-----------------------------------------------------------------------------
(***************************************************************************)
(* The reference: what one value is, by how it is put together.  A pair of *)
(* numbers stands for the bytes behind the first, up to the second.        *)
(***************************************************************************)
Spans(s) == { p \in (0 .. Len(s)) \X (0 .. Len(s)) : p[1] < p[2] }

\* n members of parts, one behind the other, from a to b.
Row(s, n, a, b, parts) ==
  \E cut \in [0 .. n -> 0 .. Len(s)] :
    /\ cut[0] = a /\ cut[n] = b
    /\ \A k \in 1 .. n : <<cut[k - 1], cut[k]>> \in parts

\* The values whose entries are in parts; every entry takes a byte at least.
ValuesOf(s, parts) ==
  { p \in Spans(s) :
      LET head == p[1] + 1
          body == head + Width(s, head)
      IN  /\ HeadIsWhole(s, head) /\ body <= p[2]
          /\ StringIsBounded(s, head)
          /\ IF Major(s, head) \in {2, 3} THEN p[2] = body + Argument(s, head)
             ELSE /\ Children(s, head) <= p[2] - body
                  /\ Row(s, Children(s, head), body, p[2], parts) }

\* The values of at most so many levels.
Levels(s) ==
  LET values[n \in 0 .. MaxNesting + 1] == IF n = 0 THEN {} ELSE ValuesOf(s, values[n - 1])
  IN  values

IsValue(s) == <<0, Len(s)>> \in Levels(s)[MaxNesting + 1]

-----------------------------------------------------------------------------
(***************************************************************************)
(* Properties.                                                             *)
(***************************************************************************)
\* The walk ends with a verdict that is right: bytes are accepted exactly when
\* they are one value within the bounds.  Comparing an announced length with
\* all the bytes left, those of the enclosing value's later entries included,
\* refuses nothing that is whole and lets nothing through that is not.  And
\* what is reserved afterwards never exceeds the bytes that were received.
PreflightIsExact ==
  /\ pc \in {"accepted", "refused"} =>
       (pc = "accepted" <=>
          /\ Len(bytes) <= MaxRecord
          /\ IsValue(bytes)
          /\ use = "ledger" => Major(bytes, 1) = 4 /\ Children(bytes, 1) <= MaxAllocations)
  /\ reserved <= Len(bytes) /\ reserved <= MaxAllocations

-----------------------------------------------------------------------------
(***************************************************************************)
(* The inductive invariant behind the verdict.                             *)
(***************************************************************************)
TypeInv ==
  /\ bytes \in Seq(Byte)
  /\ use \in {"record", "ledger"}
  /\ pc \in {"type", "walk", "decode", "accepted", "refused"}
  /\ pos \in 0 .. Len(bytes)
  /\ left \in Seq(Nat) /\ Len(left) <= MaxNesting + 2
  /\ reserved \in Nat
  /\ pc = "type" => pos = 0
  /\ pc \in {"type", "walk", "decode"} => reserved = 0

\* The bytes behind p, up to the end, are what the open containers still want:
\* the innermost one first, its last entry ending at ends[Len(wanted)].
Completes(s, p, wanted) ==
  \E ends \in [1 .. Len(wanted) + 1 -> 0 .. Len(s)] :
    /\ ends[Len(wanted) + 1] = p /\ ends[1] = Len(s)
    /\ \A k \in 1 .. Len(wanted) :
         Row(s, wanted[k], ends[k + 1], ends[k], Levels(s)[MaxNesting + 2 - k])

Admissible ==
  /\ Len(bytes) <= MaxRecord
  /\ use = "ledger" => bytes # <<>> /\ Major(bytes, 1) = 4

\* Whatever has been walked, the bytes are a value exactly when the rest of
\* them is what is still wanted.
WalkInv == pc = "walk" => Admissible /\ (IsValue(bytes) <=> Completes(bytes, pos, left))

DecodeInv == pc = "decode" => use = "ledger" /\ Admissible /\ IsValue(bytes)

IInv == TypeInv /\ WalkInv /\ DecodeInv /\ PreflightIsExact

=============================================================================
