------------------------------ MODULE Canonical ------------------------------
(***************************************************************************)
(* Stable keys as text, and what is decided by sorting it.                 *)
(*                                                                         *)
(* A key is dotted lowercase segments and a version; a namespace grant is  *)
(* a prefix of keys.  Ledger records, sealed requests and grants are put   *)
(* in order by one heap sort, and then only neighbours are compared: for a *)
(* repeated key, or for a namespace within another.                        *)
(*                                                                         *)
(* The module holds two small machines, told apart by pc.  One enters a    *)
(* text character by character; the other sorts a list and scans it.       *)
(* Characters are their ASCII codes.                                       *)
(***************************************************************************)
EXTENDS Integers, Sequences

CONSTANTS
  Char,         \* characters that are entered
  MaxKeyBytes,  \* length of a key (128 in the code)
  Prefixes,     \* namespaces that are granted
  MaxItems      \* bound: items of a list

VARIABLES
  pc,      \* "type", or the step of the sort
  text,    \* the text entered so far
  use,     \* "records", "requests" or "grants"
  input,   \* the list that was handed in
  values,  \* the list as it is sorted in place
  root,    \* roots that are not sifted yet, from the last one down
  end,     \* length of the heap
  hole     \* node that is sifted down

list == <<use, input, values>>

heap == <<root, end, hole>>

vars == <<pc, text, list, heap>>

Dot == 46

LowerV == 118

Digit == 48 .. 57

Lower == 97 .. 122

Underscore == 95

-----------------------------------------------------------------------------
(***************************************************************************)
(* The grammar of keys.                                                    *)
(***************************************************************************)
Prefix(s, n) == SubSeq(s, 1, n)

StartsWith(s, t) == Len(t) <= Len(s) /\ Prefix(s, Len(t)) = t

\* What lies between dots, empty segments included.
Segments(s) ==
  LET cuts == {0, Len(s) + 1} \cup { n \in 1 .. Len(s) : s[n] = Dot }
  IN  { SubSeq(s, p[1] + 1, p[2] - 1) :
          p \in { q \in cuts \X cuts : q[1] < q[2] /\ \A k \in cuts : ~ (q[1] < k /\ k < q[2]) } }

ValidSegment(s) ==
  /\ s # <<>>
  /\ s[1] \in Lower
  /\ \A n \in 2 .. Len(s) : s[n] \in Lower \cup Digit \cup {Underscore}

\* Where ".v" begins.
VersionStarts(s) == { n \in 1 .. Len(s) - 1 : s[n] = Dot /\ s[n + 1] = LowerV }

\* Mutant: the version begins at the first ".v".
ValidMutant(s) ==
  /\ s # <<>> /\ Len(s) <= MaxKeyBytes
  /\ s[1] # Dot /\ s[Len(s)] # Dot
  /\ \E n \in VersionStarts(s) :
       /\ \A m \in VersionStarts(s) : n <= m
       /\ LET version == SubSeq(s, n + 2, Len(s))
          IN  version # <<>> /\ version[1] # 48 /\ \A k \in 1 .. Len(version) : version[k] \in Digit
       /\ \A segment \in Segments(Prefix(s, n - 1)) : ValidSegment(segment)

\* validate: the version begins at the last ".v".  Capitals, blanks, slashes
\* and hyphens are refused first, which only decides the error's words.
Valid(s) ==
  /\ s # <<>> /\ Len(s) <= MaxKeyBytes
  /\ s[1] # Dot /\ s[Len(s)] # Dot
  /\ \E n \in VersionStarts(s) :
       /\ \A m \in VersionStarts(s) : m <= n
       /\ LET version == SubSeq(s, n + 2, Len(s))
          IN  version # <<>> /\ version[1] # 48 /\ \A k \in 1 .. Len(version) : version[k] \in Digit
       /\ \A segment \in Segments(Prefix(s, n - 1)) : ValidSegment(segment)

\* A namespace: checked as it stands, without the key it would begin.
IsKeyPrefix(s) ==
  /\ s # <<>>
  /\ s[Len(s)] = Dot
  /\ Len(s) <= MaxKeyBytes - 2
  /\ \A segment \in Segments(Prefix(s, Len(s) - 1)) : ValidSegment(segment)

ASSUME CanonicalAssumption ==
  /\ MaxKeyBytes \in Nat /\ MaxItems \in Nat
  /\ Prefixes \subseteq Seq(Nat)
  /\ \A s \in Prefixes : IsKeyPrefix(s)

-----------------------------------------------------------------------------
(***************************************************************************)
(* The order of the list.  An item remembers where it was handed in, which *)
(* only records are compared by.                                           *)
(***************************************************************************)
\* Byte by byte, a prefix first.
TextLess(s, t) ==
  \/ s # t /\ StartsWith(t, s)
  \/ \E n \in 1 .. Len(s) : /\ n <= Len(t)
                            /\ Prefix(s, n - 1) = Prefix(t, n - 1)
                            /\ s[n] < t[n]

Less(x, y) ==
  \/ TextLess(x.text, y.text)
  \/ use = "records" /\ x.text = y.text /\ x.at < y.at

Lists == UNION { [1 .. n -> Prefixes] : n \in 0 .. MaxItems }

Init ==
  /\ text = <<>>
  /\ root = 0 /\ end = 0 /\ hole = 0
  /\ \/ pc = "type" /\ use = "records" /\ input = <<>>
     \/ pc = "scan" /\ use \in {"records", "requests", "grants"} /\ input \in Lists
  /\ values = [n \in DOMAIN input |-> [text |-> input[n], at |-> n]]

\* One more character, until the text is one too long.
Type(c) ==
  /\ pc = "type"
  /\ Len(text) <= MaxKeyBytes
  /\ text' = Append(text, c)
  /\ UNCHANGED <<pc, list, heap>>

-----------------------------------------------------------------------------
(***************************************************************************)
(* sort_unstable_by and sift_down, counting nodes from 0.                  *)
(***************************************************************************)
Node(n) == values[n + 1]

Swapped(i, j) == [values EXCEPT ![i + 1] = Node(j), ![j + 1] = Node(i)]

\* A list that is in order already, or in the reverse order, needs no heap.
Scan ==
  /\ pc = "scan"
  /\ LET count == Len(values)
         descending == Less(values[count], values[1])
         ordered == \A n \in 1 .. count - 1 :
                      IF descending THEN ~ Less(values[n], values[n + 1])
                      ELSE ~ Less(values[n + 1], values[n])
     IN  IF count = 0 \/ ordered
         THEN /\ pc' = "done"
              /\ values' = IF count # 0 /\ descending
                           THEN [n \in 1 .. count |-> values[count + 1 - n]]
                           ELSE values
              /\ UNCHANGED <<root, end>>
         ELSE /\ pc' = "heap"
              /\ root' = count \div 2
              /\ end' = count
              /\ UNCHANGED values
  /\ UNCHANGED <<text, use, input, hole>>

\* The inner nodes become heaps, from the last one to the root.
Heapify ==
  /\ pc = "heap"
  /\ root > 0
  /\ root' = root - 1
  /\ hole' = root - 1
  /\ pc' = "sift"
  /\ UNCHANGED <<text, list, end>>

\* The greatest item goes behind the heap.
Extract ==
  /\ pc = "heap"
  /\ root = 0
  /\ IF end > 1
     THEN /\ end' = end - 1
          /\ values' = Swapped(0, end - 1)
          /\ hole' = 0
          /\ pc' = "sift"
     ELSE pc' = "done" /\ UNCHANGED <<values, end, hole>>
  /\ UNCHANGED <<text, use, input, root>>

\* Mutant: the second child is taken for one although the heap ends before it.
SiftMutant ==
  /\ pc = "sift"
  /\ LET left == 2 * hole + 1
         child == IF left + 1 <= end /\ left + 2 <= Len(values) /\ Less(Node(left), Node(left + 1))
                  THEN left + 1 ELSE left
     IN  IF hole < end \div 2 /\ Less(Node(hole), Node(child))
         THEN values' = Swapped(hole, child) /\ hole' = child /\ UNCHANGED pc
         ELSE pc' = "heap" /\ UNCHANGED <<values, hole>>
  /\ UNCHANGED <<text, use, input, root, end>>

\* sift_down: the hole moves to its greater child while that is greater.
Sift ==
  /\ pc = "sift"
  /\ LET left == 2 * hole + 1
         child == IF left + 1 < end /\ Less(Node(left), Node(left + 1)) THEN left + 1 ELSE left
     IN  IF hole < end \div 2 /\ Less(Node(hole), Node(child))
         THEN values' = Swapped(hole, child) /\ hole' = child /\ UNCHANGED pc
         ELSE pc' = "heap" /\ UNCHANGED <<values, hole>>
  /\ UNCHANGED <<text, use, input, root, end>>

Next == (\E c \in Char : Type(c)) \/ Scan \/ Heapify \/ Extract \/ Sift

Spec == Init /\ [][Next]_vars

-----------------------------------------------------------------------------
(***************************************************************************)
(* The scans of the sorted list.                                           *)
(***************************************************************************)
Neighbours == { <<values[n], values[n + 1]>> : n \in 1 .. Len(values) - 1 }

\* duplicate_key_positions: of equal neighbours, the later in the input.
DuplicatePositions == { pair[2].at : pair \in { p \in Neighbours : p[1].text = p[2].text } }

\* SealedDeclarationSnapshot::new
RepeatsRequest == \E pair \in Neighbours : pair[1].text = pair[2].text

\* Mutant: only equal namespaces are refused.
NamespacesOverlapMutant == \E pair \in Neighbours : pair[2].text = pair[1].text

\* MemoryAllocationPool::new
NamespacesOverlap == \E pair \in Neighbours : StartsWith(pair[2].text, pair[1].text)

\* authority_for_key: the grant of the first namespace that the key is in.
GrantOf(key) ==
  LET matching == { n \in 1 .. Len(values) : StartsWith(key, values[n].text) }
  IN  { values[n].at : n \in { m \in matching : \A k \in matching : m <= k } }

-----------------------------------------------------------------------------
(***************************************************************************)
(* Properties.                                                             *)
(***************************************************************************)
\* A text is a key exactly when some ".v" in it splits it into segments and a
\* version without a leading zero, whichever ".v" that is; and a namespace
\* exactly when it begins such a key with nothing but "v1" behind it.
KeysAreExact ==
  /\ Valid(text) <=>
       /\ Len(text) <= MaxKeyBytes
       /\ \E n \in 2 .. Len(text) - 2 :
            /\ text[n] = Dot /\ text[n + 1] = LowerV
            /\ text[n + 2] \in Digit \ {48}
            /\ \A k \in n + 3 .. Len(text) : text[k] \in Digit
            /\ \A k \in 1 .. n :
                 /\ text[k] \in Lower \cup Digit \cup {Underscore, Dot}
                 /\ k = 1 \/ text[k - 1] = Dot => text[k] \in Lower
  /\ IsKeyPrefix(text) <=> Valid(text \o <<LowerV, 49>>)

\* Sorting keeps every item and brings them into order, whether the list was
\* in order, in reverse order with equal ends, or in none.
SortIsCanonical ==
  /\ { values[n] : n \in DOMAIN values } = { [text |-> input[n], at |-> n] : n \in DOMAIN input }
  /\ pc = "done" => \A m, n \in DOMAIN values : m < n => ~ Less(values[n], values[m])

\* The comparison of neighbours decides about all pairs of the list that was
\* handed in: repeated keys at their later positions, and any namespace
\* within another, however many lie between them.  Without overlap every key
\* has one grant at most, so the first that matches is the only one.
ScansAreExact ==
  pc = "done" =>
    /\ use = "records" =>
         DuplicatePositions = { n \in DOMAIN input : \E m \in 1 .. n - 1 : input[m] = input[n] }
    /\ use = "requests" =>
         (RepeatsRequest <=> \E m, n \in DOMAIN input : m # n /\ input[m] = input[n])
    /\ use = "grants" =>
         (NamespacesOverlap <=>
            \E m, n \in DOMAIN input : m # n /\ StartsWith(input[n], input[m]))
    /\ use = "grants" /\ ~ NamespacesOverlap =>
         \A s \in Prefixes :
           LET key == s \o <<LowerV, 49>>
           IN  GrantOf(key) = { n \in DOMAIN input : StartsWith(key, input[n]) }

-----------------------------------------------------------------------------
(***************************************************************************)
(* The inductive invariant behind the order.                               *)
(***************************************************************************)
TypeInv ==
  /\ pc \in {"type", "scan", "heap", "sift", "done"}
  /\ text \in Seq(Char)
  /\ use \in {"records", "requests", "grants"}
  /\ input \in Lists
  /\ values \in Seq([text : Prefixes, at : Nat])
  /\ root \in Nat /\ end \in Nat /\ hole \in Nat
  /\ pc \in {"heap", "sift"} => root <= end /\ end <= Len(values)
  /\ pc = "sift" => root <= hole /\ hole < end

\* The items are those that were handed in, each in one place.
ItemsInv ==
  /\ DOMAIN values = DOMAIN input
  /\ { values[n] : n \in DOMAIN values } = { [text |-> input[n], at |-> n] : n \in DOMAIN input }
  /\ \A m, n \in DOMAIN values : values[m] = values[n] => m = n

Children(p) == {2 * p + 1, 2 * p + 2} \cap (0 .. end - 1)

\* From root on no child is greater than its parent, except below the hole,
\* where no child is greater than the parent of the hole.
HeapInv ==
  pc \in {"heap", "sift"} =>
    \A p \in root .. end - 1 :
      /\ pc = "heap" \/ p # hole => \A c \in Children(p) : ~ Less(Node(p), Node(c))
      /\ pc = "sift" /\ hole \in Children(p) => \A c \in Children(hole) : ~ Less(Node(p), Node(c))

\* What is behind the heap is in order, and nothing before it is greater.
TailInv ==
  pc \in {"heap", "sift"} =>
    \A j \in end .. Len(values) - 1 : \A i \in 0 .. j - 1 : ~ Less(Node(j), Node(i))

OrderInv == pc = "done" => \A m, n \in DOMAIN values : m < n => ~ Less(values[n], values[m])

IInv == TypeInv /\ ItemsInv /\ HeapInv /\ TailInv /\ OrderInv

=============================================================================
