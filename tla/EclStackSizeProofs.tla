------------------------- MODULE EclStackSizeProofs -------------------------
(***************************************************************************)
(* The top of a stack never leaves its array, for every initial size,      *)
(* safety margin and depth of nested overflow errors.                      *)
(*                                                                         *)
(* TopInArray is not inductive: that an extension has room for what is     *)
(* moved into it depends on the size of the array when the error was       *)
(* signalled, which the error remembers while handlers push, overflow and  *)
(* extend the same stack again.                                            *)
(*                                                                         *)
(* The second part is about what the slots hold.  The errors in progress   *)
(* have pushed over slots nobody has written; each lies above the one      *)
(* before, and below the top, which is why an extension that continues one *)
(* finds every binding below it.                                           *)
(***************************************************************************)
EXTENDS EclStackSize, SequenceTheorems, TLAPS

(* An overflow error signalled with at least one margin of room left.      *)
GoodError(k) ==
    {e \in [len : Nat \ {0}, size : Nat, v : Tag] :
        k = "bds" => /\ e.size >= 2 * Margin + 2
                     /\ e.len <= e.size - Margin + 1}

(* The inductive invariant.                                                *)
StackInv ==
    /\ kind \in Kinds
    /\ items \in Seq(Tag \cup {Junk})
    /\ size \in Nat
    /\ limit \in {size - 2 * Margin, size - Margin, size}
    /\ Len(items) <= limit
    /\ kind = "bds" => size >= 2 * Margin + 2
    /\ errors \in Seq(GoodError(kind))
    /\ dead \in BOOLEAN
    /\ dead => Len(items) >= size

(* A prefix of a sequence is one, of the length asked for.                 *)
LEMMA Prefix ==
    ASSUME NEW S, NEW s \in Seq(S), NEW k \in 0 .. Len(s)
    PROVE  SubSeq(s, 1, k) \in Seq(S) /\ Len(SubSeq(s, 1, k)) = k
<1>1. \A i \in 1 .. k : s[i] \in S
  OBVIOUS
<1> QED
  BY <1>1, SubSeqProperties

(* A sequence whose elements are in T is a sequence over T.                *)
LEMMA SeqOf ==
    ASSUME NEW S, NEW T, NEW s \in Seq(S), \A i \in 1 .. Len(s) : s[i] \in T
    PROVE  s \in Seq(T)
<1>1. SubSeq(s, 1, Len(s)) = s /\ Len(s) \in Int
  BY SubSeqFull
<1>2. SubSeq(s, 1, Len(s)) \in Seq(T)
  BY <1>1, SubSeqProperties
<1> QED
  BY <1>1, <1>2

(* The last element, as a sequence.                                        *)
LEMMA LastOne ==
    ASSUME NEW S, NEW s \in Seq(S), s # <<>>
    PROVE  /\ SubSeq(s, Len(s), Len(s)) \in Seq(S)
           /\ Len(SubSeq(s, Len(s), Len(s))) = 1
<1>1. Len(s) \in Nat \ {0}
  OBVIOUS
<1>2. \A i \in Len(s) .. Len(s) : s[i] \in S
  BY <1>1
<1> QED
  BY <1>1, <1>2, SubSeqProperties

(* ecl_bds_set_size and frs_set_size leave the top below the new limit,    *)
(* when the room asked for exceeds the binding stack by two margins.       *)
LEMMA SetSizeInv ==
    ASSUME NEW n \in Nat, NEW stack \in Seq(Tag \cup {Junk}), stack # <<>>,
           kind = "bds" => n >= 2 * Margin + 2 /\ Len(stack) <= n - 2 * Margin,
           SetSize(n, stack)
    PROVE  /\ items' \in Seq(Tag \cup {Junk})
           /\ size' \in Nat
           /\ limit' = size' - 2 * Margin
           /\ Len(items') <= limit'
           /\ kind = "bds" => size' >= 2 * Margin + 2
<1>1. CASE kind = "bds"
  BY <1>1, StackAssumption DEF SetSize
<1>2. CASE kind # "bds"
  <2>1. items' = SubSeq(stack, Len(stack), Len(stack)) /\ n > 0
        /\ size' = n + 2 * Margin /\ limit' = n
    BY <1>2 DEF SetSize
  <2>2. items' \in Seq(Tag \cup {Junk}) /\ Len(items') = 1
    BY <2>1, LastOne
  <2> QED
    BY <1>2, <2>1, <2>2, StackAssumption
<1> QED
  BY <1>1, <1>2, StackAssumption

(* The stacks of init_stacks satisfy the invariant.                        *)
LEMMA InitInv == StackInit => StackInv
<1> SUFFICES ASSUME StackInit
             PROVE  StackInv
  OBVIOUS
<1>1. items \in Seq(Tag \cup {Junk}) /\ errors \in Seq(GoodError(kind)) /\ Len(items) = 0
  BY DEF StackInit
<1>2. size \in Nat /\ limit = size - 2 * Margin /\ 0 <= limit /\ size >= 2 * Margin + 2
  BY StackAssumption DEF StackInit
<1>3. dead = FALSE /\ kind \in Kinds
  BY DEF StackInit
<1> QED
  BY <1>1, <1>2, <1>3 DEF StackInv

(* Every step keeps it, when the binding stack is not resized from Lisp.   *)
LEMMA NextInv ==
    ASSUME "bds" \in Kinds => Limits["bds"] = {}
    PROVE  StackInv /\ [StackNext]_vars => StackInv'
<1> SUFFICES ASSUME StackInv, [StackNext]_vars
             PROVE  StackInv'
  OBVIOUS
<1> USE StackAssumption
<1>k. kind' = kind /\ kind \in Kinds
  BY DEF StackNext, vars, StackInv
<1>1. ASSUME NEW v \in Tag, Push(v)
      PROVE  StackInv'
  <2>1. items' = Append(items, v) /\ UNCHANGED <<size, limit, errors, dead>>
        /\ Len(items) < limit /\ ~dead
    BY <1>1 DEF Push
  <2>2. items' \in Seq(Tag \cup {Junk}) /\ Len(items') = Len(items) + 1
    BY <2>1 DEF StackInv
  <2>3. Len(items') <= limit'
    BY <2>1, <2>2 DEF StackInv
  <2> QED
    BY <1>k, <2>1, <2>2, <2>3 DEF StackInv
<1>2. ASSUME NEW v \in Tag, Overflow(v)
      PROVE  StackInv'
  <2>1. CASE limit >= size
    BY <1>k, <1>2, <2>1 DEF Overflow, StackInv
  <2>2. CASE limit < size
    <3> DEFINE e == [len |-> Len(items) + 1, size |-> size, v |-> v]
    <3>1. /\ limit' = limit + Margin
          /\ items' = Append(items, Junk)
          /\ errors' = Append(errors, e)
          /\ UNCHANGED <<size, dead>>
          /\ Len(items) >= limit /\ ~dead
      BY <1>2, <2>2 DEF Overflow, StackInv
    <3>2. items' \in Seq(Tag \cup {Junk}) /\ Len(items') = Len(items) + 1
      BY <3>1 DEF StackInv
    <3>3. Margin >= 1 /\ limit <= size - Margin /\ Len(items) = limit
      BY <2>2, <3>1 DEF StackInv
    <3>4. limit' \in {size' - Margin, size'} /\ Len(items') <= limit'
      BY <2>2, <3>1, <3>2, <3>3 DEF StackInv
    <3>5. e \in GoodError(kind)
      BY <3>3 DEF GoodError, StackInv
    <3>6. errors' \in Seq(GoodError(kind))
      BY <3>1, <3>5 DEF StackInv
    <3> QED
      BY <1>k, <3>1, <3>2, <3>4, <3>6 DEF StackInv
  <2> QED
    BY <1>k, <2>1, <2>2 DEF StackInv
<1>3. CASE Extend
  <2> DEFINE e == LastError
             n == e.size + e.size \div 2
             stack == [items EXCEPT ![Len(items)] = e.v]
  <2>1. e \in GoodError(kind) /\ errors' = SubSeq(errors, 1, Len(errors) - 1)
        /\ Len(items) = e.len /\ SetSize(n, stack) /\ UNCHANGED dead
        /\ Len(errors) \in Nat \ {0}
    BY <1>3 DEF Extend, LastError, StackInv
  <2>2. errors' \in Seq(GoodError(kind))
    BY <2>1, Prefix DEF StackInv
  <2>3. e.size \in Nat /\ e.v \in Tag /\ n \in Nat
    BY <2>1 DEF GoodError
  <2>4. stack \in Seq(Tag \cup {Junk}) /\ Len(stack) = Len(items)
    <3>1. e.v \in Tag \cup {Junk} /\ Len(items) \in 1 .. Len(items)
      BY <2>1, <2>3 DEF GoodError
    <3>2. items \in Seq(Tag \cup {Junk})
      BY DEF StackInv
    <3> HIDE DEF e
    <3> QED
      BY <3>1, <3>2, ExceptSeq
  <2>5. kind = "bds" => n >= 2 * Margin + 2 /\ Len(stack) <= n - 2 * Margin
    BY <2>1, <2>3, <2>4 DEF GoodError
  <2>6. Len(stack) # 0 /\ stack # <<>>
    BY <2>1, <2>4 DEF GoodError
  <2>7. ~dead
    BY <1>3 DEF Extend
  <2> HIDE DEF n, stack
  <2>8. /\ items' \in Seq(Tag \cup {Junk})
        /\ size' \in Nat
        /\ limit' = size' - 2 * Margin
        /\ Len(items') <= limit'
        /\ kind = "bds" => size' >= 2 * Margin + 2
    BY <2>1, <2>3, <2>4, <2>5, <2>6, SetSizeInv
  <2> QED
    BY <1>k, <2>1, <2>2, <2>7, <2>8 DEF StackInv
<1>4. CASE Pop
  <2>1. Len(items) \in Nat \ {0} /\ items' = SubSeq(items, 1, Len(items) - 1)
        /\ UNCHANGED <<size, limit, errors, dead>>
    <3>1. Floor \in Nat
      <4>1. CASE errors = <<>>
        BY <4>1 DEF Floor
      <4>2. CASE errors # <<>>
        <5>1. LastError \in GoodError(kind)
          BY <4>2 DEF LastError, StackInv
        <5> QED
          BY <4>2, <5>1 DEF Floor, GoodError
      <4> QED
        BY <4>1, <4>2
    <3> QED
      BY <1>4, <3>1 DEF Pop, StackInv
  <2>2. ~dead
    BY <1>4 DEF Pop
  <2> QED
    BY <1>k, <2>1, <2>2, Prefix DEF StackInv
<1>5. ASSUME NEW k \in 0 .. Len(items) - 1, Unwind(k)
      PROVE  StackInv'
  <2>1. k \in 0 .. Len(items) /\ items' = SubSeq(items, 1, k)
        /\ UNCHANGED <<size, limit, dead>> /\ ~dead
    BY <1>5 DEF Unwind, StackInv
  <2>2. PICK j \in 0 .. Len(errors) : errors' = SubSeq(errors, 1, j)
    BY <1>5 DEF Unwind
  <2>3. items' \in Seq(Tag \cup {Junk}) /\ Len(items') <= limit'
    BY <2>1, Prefix DEF StackInv
  <2>4. errors' \in Seq(GoodError(kind))
    BY <2>2, Prefix DEF StackInv
  <2> QED
    BY <1>k, <2>1, <2>3, <2>4 DEF StackInv
<1>6. ASSUME NEW n \in Limits[kind], SetLimit(n)
      PROVE  StackInv'
  <2>1. items # <<>> /\ SetSize(n, items) /\ UNCHANGED <<errors, dead>>
        /\ n \in Nat /\ kind # "bds" /\ ~dead
    BY <1>k, <1>6 DEF SetLimit
  <2> QED
    BY <1>k, <2>1, SetSizeInv DEF StackInv
<1>7. CASE UNCHANGED vars
  BY <1>7 DEF vars, StackInv
<1> QED
  BY <1>1, <1>2, <1>3, <1>4, <1>5, <1>6, <1>7 DEF StackNext

(* Neither the binding stack, left at the sizes overflows give it, nor the *)
(* frame stack, resized at will, ever has its top beyond the end of its    *)
(* array (ecl_bds_overflow, frs_overflow and their set_size functions),    *)
(* and an overflow ends the program only when there is no room left.       *)
THEOREM StackTopInArray ==
    ASSUME "bds" \in Kinds => Limits["bds"] = {}
    PROVE  StackSpec => []TopInArray
<1>1. StackInv => TopInArray
  BY StackAssumption DEF StackInv, TopInArray
<1> QED
  BY <1>1, InitInv, NextInv, PTL DEF StackSpec

(* The type invariant, with the margins the overflow functions count on.   *)
THEOREM StackTypes ==
    ASSUME "bds" \in Kinds => Limits["bds"] = {}
    PROVE  StackSpec => []StackTypeOK
<1>1. StackInv => StackTypeOK
  <2> SUFFICES ASSUME StackInv
               PROVE  errors \in Seq([len : Nat, size : Nat, v : Tag])
    BY DEF StackInv, StackTypeOK
  <2>1. \A i \in 1 .. Len(errors) : errors[i] \in [len : Nat, size : Nat, v : Tag]
    <3> SUFFICES ASSUME NEW i \in 1 .. Len(errors)
                 PROVE  errors[i] \in [len : Nat, size : Nat, v : Tag]
      OBVIOUS
    <3>1. errors[i] \in GoodError(kind)
      BY DEF StackInv
    <3> QED
      BY <3>1 DEF GoodError
  <2> QED
    BY <2>1, SeqOf DEF StackInv
<1> QED
  BY <1>1, InitInv, NextInv, PTL DEF StackSpec

-----------------------------------------------------------------------------
(* An overflow error being handled.                                        *)
Error == [len : Nat \ {0}, size : Nat, v : Tag]

(* The overflow errors being handled were signalled at ever higher levels, *)
(* none above the top.                                                     *)
ErrorsRise ==
    /\ \A i, j \in 1 .. Len(errors) : i < j => errors[i].len < errors[j].len
    /\ \A j \in 1 .. Len(errors) : errors[j].len <= Len(items)

(* What makes JunkIsPending inductive, at whatever sizes stacks are set to.*)
JunkInv ==
    /\ kind \in Kinds
    /\ items \in Seq(Tag \cup {Junk})
    /\ size \in Nat
    /\ errors \in Seq(Error)
    /\ kind = "bds" => ErrorsRise
    /\ JunkIsPending

(* The errors have levels above zero.                                      *)
LEMMA ErrorFacts ==
    ASSUME JunkInv
    PROVE  \A i \in 1 .. Len(errors) : errors[i] \in Error /\ errors[i].len \in Nat \ {0}
<1> SUFFICES ASSUME NEW i \in 1 .. Len(errors)
             PROVE  errors[i] \in Error /\ errors[i].len \in Nat \ {0}
  OBVIOUS
<1>1. errors[i] \in Error
  BY DEF JunkInv
<1> QED
  BY <1>1 DEF Error

(* Cutting both sequences at the same level keeps the slots explained.     *)
LEMMA CutJunk ==
    ASSUME JunkInv, kind' = kind, size' = size,
           NEW k \in 0 .. Len(items), items' = SubSeq(items, 1, k),
           NEW j \in 0 .. Len(errors), errors' = SubSeq(errors, 1, j),
           kind = "bds" => \A i \in 1 .. Len(errors) : i <= j <=> errors[i].len <= k
    PROVE  JunkInv'
<1>1. /\ items' \in Seq(Tag \cup {Junk}) /\ Len(items') = k
      /\ \A i \in 1 .. k : items'[i] = items[i]
  BY Prefix DEF JunkInv
<1>2. /\ errors' \in Seq(Error) /\ Len(errors') = j
      /\ \A i \in 1 .. j : errors'[i] = errors[i]
  BY Prefix DEF JunkInv
<1>3. Len(items) \in Nat /\ Len(errors) \in Nat
  BY DEF JunkInv
<1>4. ASSUME kind = "bds"
      PROVE  ErrorsRise'
  <2>1. ErrorsRise
    BY <1>4 DEF JunkInv
  <2>2. \A i \in 1 .. j : i \in 1 .. Len(errors) /\ errors[i].len <= k
    BY <1>3, <1>4
  <2> QED
    BY <1>1, <1>2, <2>1, <2>2 DEF ErrorsRise
<1>5. JunkIsPending'
  <2> SUFFICES ASSUME kind = "bds", NEW i \in 1 .. k, items[i] = Junk
               PROVE  \E n \in 1 .. j : errors[n].len = i
    <3>1. DOMAIN items' = 1 .. Len(items') /\ DOMAIN errors' = 1 .. Len(errors')
      BY <1>1, <1>2
    <3> QED
      BY <1>1, <1>2, <3>1 DEF JunkIsPending
  <2>1. i \in DOMAIN items
    BY <1>3 DEF JunkInv
  <2>2. PICK n \in DOMAIN errors : errors[n].len = i
    BY <2>1 DEF JunkInv, JunkIsPending
  <2>3. n \in 1 .. Len(errors) /\ errors[n].len <= k
    BY <2>2 DEF JunkInv
  <2>4. n <= j
    BY <2>3
  <2> QED
    BY <1>3, <2>2, <2>3, <2>4
<1> QED
  BY <1>1, <1>2, <1>4, <1>5 DEF JunkInv

(* What continuing an overflow does to the binding stack.                  *)
LEMMA ExtendBds ==
    ASSUME JunkInv, Extend, kind = "bds"
    PROVE  /\ Len(items) \in Nat \ {0} /\ Len(errors) \in Nat \ {0}
           /\ LastError \in Error /\ LastError.len = Len(items)
           /\ items' = [items EXCEPT ![Len(items)] = LastError.v]
           /\ items' \in Seq(Tag \cup {Junk}) /\ Len(items') = Len(items)
           /\ \A i \in 1 .. Len(items) - 1 : items'[i] = items[i]
           /\ size' \in Nat
<1>1. Len(errors) \in Nat \ {0} /\ LastError \in Error
  BY DEF JunkInv, Extend, LastError
<1>2. /\ LastError.len \in Nat \ {0} /\ LastError.v \in Tag
      /\ LastError.size + LastError.size \div 2 \in Nat
  BY <1>1 DEF Error
<1>3. /\ LastError.len = Len(items)
      /\ items' = [items EXCEPT ![Len(items)] = LastError.v]
      /\ size' = LastError.size + LastError.size \div 2
  BY DEF Extend, SetSize
<1>4. /\ items' \in Seq(Tag \cup {Junk}) /\ Len(items') = Len(items)
      /\ \A i \in 1 .. Len(items) - 1 : items'[i] = items[i]
  <2>1. PICK v : v = LastError.v
    OBVIOUS
  <2>2. v \in Tag \cup {Junk} /\ items \in Seq(Tag \cup {Junk}) /\ Len(items) \in 1 .. Len(items)
    BY <1>2, <1>3, <2>1 DEF JunkInv
  <2>3. [items EXCEPT ![Len(items)] = v] \in Seq(Tag \cup {Junk})
        /\ Len([items EXCEPT ![Len(items)] = v]) = Len(items)
        /\ \A i \in 1 .. Len(items) :
              [items EXCEPT ![Len(items)] = v][i] = IF i = Len(items) THEN v ELSE items[i]
    BY <2>2, ExceptSeq
  <2>4. Len(items) \in Nat
    BY <2>2
  <2>5. \A i \in 1 .. Len(items) - 1 : i \in 1 .. Len(items) /\ i # Len(items)
    BY <2>4
  <2> QED
    BY <1>3, <2>1, <2>3, <2>5
<1> QED
  BY <1>1, <1>2, <1>3, <1>4

(* What resizing leaves of the frame stack has its type.                   *)
LEMMA SetSizeTypes ==
    ASSUME NEW n \in Nat, NEW stack \in Seq(Tag \cup {Junk}), stack # <<>>, SetSize(n, stack)
    PROVE  items' \in Seq(Tag \cup {Junk}) /\ size' \in Nat
<1>1. CASE kind = "bds"
  BY <1>1 DEF SetSize
<1>2. CASE kind # "bds"
  <2>1. items' = SubSeq(stack, Len(stack), Len(stack)) /\ size' = n + 2 * Margin
    BY <1>2 DEF SetSize
  <2>2. items' \in Seq(Tag \cup {Junk})
    BY <2>1, LastOne
  <2> QED
    BY <2>1, <2>2, StackAssumption
<1> QED
  BY <1>1, <1>2

(* Every step keeps it.                                                    *)
LEMMA NextJunk == JunkInv /\ [StackNext]_vars => JunkInv'
<1> SUFFICES ASSUME JunkInv, [StackNext]_vars
             PROVE  JunkInv'
  OBVIOUS
<1> USE StackAssumption
<1>k. kind' = kind /\ kind \in Kinds /\ Len(items) \in Nat /\ Len(errors) \in Nat
  BY DEF StackNext, vars, JunkInv
<1>1. ASSUME NEW x \in Tag \cup {Junk}, items' = Append(items, x), size' = size,
             \/ x # Junk /\ errors' = errors
             \/ \E e \in Error : e.len = Len(items) + 1 /\ errors' = Append(errors, e)
      PROVE  JunkInv'
  <2>1. /\ items' \in Seq(Tag \cup {Junk}) /\ Len(items') = Len(items) + 1
        /\ \A i \in 1 .. Len(items) : items'[i] = items[i]
        /\ items'[Len(items) + 1] = x
    BY <1>1 DEF JunkInv
  <2>2. CASE x # Junk /\ errors' = errors
    <3>1. kind = "bds" => ErrorsRise'
      <4>1. kind = "bds" => ErrorsRise
        BY DEF JunkInv
      <4>2. \A j \in 1 .. Len(errors) : errors[j].len \in Nat
        BY ErrorFacts
      <4> QED
        BY <1>k, <2>1, <2>2, <4>1, <4>2 DEF ErrorsRise
    <3>2. JunkIsPending'
      <4>1. DOMAIN items' = 1 .. Len(items) + 1 /\ DOMAIN items = 1 .. Len(items)
        BY <2>1 DEF JunkInv
      <4>2. \A i \in DOMAIN items' : items'[i] = Junk => i \in DOMAIN items /\ items[i] = Junk
        BY <1>k, <2>1, <2>2, <4>1
      <4> QED
        BY <1>k, <2>2, <4>2 DEF JunkIsPending, JunkInv
    <3> QED
      BY <1>k, <1>1, <2>1, <2>2, <3>1, <3>2 DEF JunkInv
  <2>3. ASSUME NEW e \in Error, e.len = Len(items) + 1, errors' = Append(errors, e)
        PROVE  JunkInv'
    <3>1. /\ errors' \in Seq(Error) /\ Len(errors') = Len(errors) + 1
          /\ \A i \in 1 .. Len(errors) : errors'[i] = errors[i]
          /\ errors'[Len(errors) + 1] = e
      BY <2>3 DEF JunkInv
    <3>2. \A i \in 1 .. Len(errors) : errors[i].len \in Nat
      BY ErrorFacts
    <3>3. kind = "bds" => ErrorsRise'
      <4> SUFFICES ASSUME kind = "bds"
                   PROVE  ErrorsRise'
        OBVIOUS
      <4>1. /\ \A i, j \in 1 .. Len(errors) : i < j => errors[i].len < errors[j].len
            /\ \A j \in 1 .. Len(errors) : errors[j].len <= Len(items)
        BY DEF JunkInv, ErrorsRise
      <4>2. ASSUME NEW j \in 1 .. Len(errors')
            PROVE  \/ j \in 1 .. Len(errors) /\ errors'[j] = errors[j]
                   \/ j = Len(errors) + 1 /\ errors'[j] = e
        BY <1>k, <3>1
      <4>3. \A j \in 1 .. Len(errors') : errors'[j].len <= Len(items')
        BY <1>k, <2>1, <2>3, <3>2, <4>1, <4>2
      <4>4. ASSUME NEW i \in 1 .. Len(errors'), NEW j \in 1 .. Len(errors'), i < j
            PROVE  errors'[i].len < errors'[j].len
        <5>1. i \in 1 .. Len(errors) /\ errors'[i] = errors[i]
          BY <1>k, <3>1, <4>4
        <5>2. CASE j \in 1 .. Len(errors)
          BY <3>1, <4>1, <4>4, <5>1, <5>2
        <5>3. CASE j = Len(errors) + 1
          BY <1>k, <2>3, <3>1, <3>2, <4>1, <5>1, <5>3
        <5> QED
          BY <4>2, <5>2, <5>3
      <4> QED
        BY <4>3, <4>4 DEF ErrorsRise
    <3>4. JunkIsPending'
      <4> SUFFICES ASSUME kind = "bds", NEW i \in 1 .. Len(items) + 1, items'[i] = Junk
                   PROVE  \E n \in 1 .. Len(errors) + 1 : errors'[n].len = i
        <5>1. DOMAIN items' = 1 .. Len(items) + 1 /\ DOMAIN errors' = 1 .. Len(errors) + 1
          BY <2>1, <3>1
        <5> QED
          BY <1>k, <5>1 DEF JunkIsPending
      <4>1. CASE i = Len(items) + 1
        BY <1>k, <2>3, <3>1, <4>1
      <4>2. CASE i # Len(items) + 1
        <5>1. i \in DOMAIN items /\ items[i] = Junk
          BY <1>k, <2>1, <4>2, SMTT(30) DEF JunkInv
        <5>2. PICK n \in DOMAIN errors : errors[n].len = i
          BY <5>1 DEF JunkInv, JunkIsPending
        <5>3. n \in 1 .. Len(errors)
          BY <5>2 DEF JunkInv
        <5> QED
          BY <1>k, <3>1, <5>2, <5>3
      <4> QED
        BY <4>1, <4>2
    <3> QED
      BY <1>k, <1>1, <2>1, <3>1, <3>3, <3>4 DEF JunkInv
  <2> QED
    BY <1>1, <2>2, <2>3
<1>2. ASSUME NEW v \in Tag, Push(v)
      PROVE  JunkInv'
  BY <1>1, <1>2 DEF Push
<1>3. ASSUME NEW v \in Tag, Overflow(v)
      PROVE  JunkInv'
  <2>1. CASE limit >= size
    <3>1. UNCHANGED <<items, size, errors>>
      BY <1>3, <2>1 DEF Overflow
    <3> QED
      BY <1>k, <3>1 DEF JunkInv, JunkIsPending, ErrorsRise
  <2>2. CASE ~(limit >= size)
    <3> DEFINE e == [len |-> Len(items) + 1, size |-> size, v |-> v]
    <3>1. items' = Append(items, Junk) /\ size' = size /\ errors' = Append(errors, e)
      BY <1>3, <2>2 DEF Overflow
    <3>2. e \in Error /\ e.len = Len(items) + 1
      BY <1>k DEF Error, JunkInv
    <3> HIDE DEF e
    <3> QED
      BY <1>1, <3>1, <3>2
  <2> QED
    BY <2>1, <2>2
<1>4. CASE Extend
  <2>0. Len(errors) \in Nat \ {0} /\ errors' = SubSeq(errors, 1, Len(errors) - 1)
        /\ LastError \in Error /\ LastError = errors[Len(errors)] /\ Len(items) = LastError.len
    BY <1>4 DEF Extend, LastError, JunkInv
  <2>1. /\ errors' \in Seq(Error) /\ Len(errors') = Len(errors) - 1
        /\ \A i \in 1 .. Len(errors) - 1 : errors'[i] = errors[i]
    <3>1. Len(errors) - 1 \in 0 .. Len(errors) /\ errors \in Seq(Error)
      BY <2>0 DEF JunkInv
    <3>2. errors' \in Seq(Error) /\ Len(errors') = Len(errors) - 1
      BY <2>0, <3>1, Prefix
    <3>3. \A i \in 1 .. Len(errors) - 1 : errors'[i] = errors[i]
      BY <2>0, <3>1
    <3> QED
      BY <3>2, <3>3
  <2>2. CASE kind = "bds"
    <3>1. /\ Len(items) \in Nat \ {0}
          /\ items' = [items EXCEPT ![Len(items)] = LastError.v]
          /\ items' \in Seq(Tag \cup {Junk}) /\ Len(items') = Len(items)
          /\ size' \in Nat
      BY <1>4, <2>2, ExtendBds
    <3>2. /\ \A i \in 1 .. Len(items) - 1 : items'[i] = items[i]
          /\ items'[Len(items)] # Junk
      BY <2>0, <3>1 DEF JunkInv, Error
    <3>3. ErrorsRise
      BY <2>2 DEF JunkInv
    <3>4. ErrorsRise'
      BY <1>k, <2>1, <3>1, <3>3 DEF ErrorsRise
    <3>5. JunkIsPending'
      <4> SUFFICES ASSUME NEW i \in 1 .. Len(items), items'[i] = Junk
                   PROVE  \E n \in 1 .. Len(errors) - 1 : errors'[n].len = i
        <5>0. items' \in Seq(Tag \cup {Junk}) /\ Len(items') = Len(items)
          BY <3>1
        <5>1. DOMAIN items' = 1 .. Len(items) /\ DOMAIN errors' = 1 .. Len(errors) - 1
          BY <2>1, <5>0
        <5> QED
          BY <5>1 DEF JunkIsPending
      <4>1. i \in 1 .. Len(items) - 1 /\ items[i] = Junk /\ i \in DOMAIN items
        BY <1>k, <3>2 DEF JunkInv
      <4>2. PICK n \in DOMAIN errors : errors[n].len = i
        BY <2>2, <4>1 DEF JunkInv, JunkIsPending
      <4>3. n \in 1 .. Len(errors) /\ n # Len(errors)
        BY <2>0, <4>1, <4>2 DEF JunkInv
      <4> QED
        BY <1>k, <2>1, <4>2, <4>3
    <3> QED
      BY <1>k, <2>1, <3>1, <3>4, <3>5 DEF JunkInv
  <2>3. CASE kind # "bds"
    <3> DEFINE n == LastError.size + LastError.size \div 2
               stack == [items EXCEPT ![Len(items)] = LastError.v]
    <3>1. SetSize(n, stack)
      BY <1>4 DEF Extend
    <3>2. LastError.v \in Tag \cup {Junk} /\ n \in Nat /\ LastError.len \in Nat \ {0}
      BY <2>0 DEF Error
    <3>3. stack \in Seq(Tag \cup {Junk}) /\ Len(stack) = Len(items)
      <4>1. items \in Seq(Tag \cup {Junk}) /\ Len(items) \in 1 .. Len(items)
        BY <2>0, <3>2 DEF JunkInv
      <4>2. PICK v : v = LastError.v
        OBVIOUS
      <4>3. v \in Tag \cup {Junk} /\ stack = [items EXCEPT ![Len(items)] = v]
        BY <3>2, <4>2
      <4> QED
        BY <4>1, <4>3, ExceptSeq
    <3>4. stack # <<>>
      BY <2>0, <3>2, <3>3
    <3> HIDE DEF n, stack
    <3>5. items' \in Seq(Tag \cup {Junk}) /\ size' \in Nat
      BY <3>1, <3>2, <3>3, <3>4, SetSizeTypes
    <3> QED
      BY <1>k, <2>1, <2>3, <3>5 DEF JunkInv, JunkIsPending
  <2> QED
    BY <2>2, <2>3
<1>5. CASE Pop
  <2> DEFINE k == Len(items) - 1
             j == Len(errors)
  <2>1. Floor \in Nat
    <3>1. errors # <<>> => Len(errors) \in 1 .. Len(errors)
      BY <1>k DEF JunkInv
    <3> QED
      BY <3>1, ErrorFacts DEF Floor, LastError
  <2>2. /\ Len(items) > Floor
        /\ k \in 0 .. Len(items) /\ items' = SubSeq(items, 1, k) /\ size' = size
    BY <1>5, <1>k, <2>1 DEF Pop
  <2>3. j \in 0 .. Len(errors) /\ errors' = SubSeq(errors, 1, j)
    BY <1>5, <1>k, SubSeqFull DEF Pop, JunkInv
  <2>4. ASSUME kind = "bds", NEW i \in 1 .. Len(errors)
        PROVE  errors[i].len <= k
    <3>1. errors # <<>> /\ Floor = errors[Len(errors)].len
      BY <2>4 DEF Floor, LastError, JunkInv
    <3>2. ErrorsRise /\ errors[i].len \in Nat
      BY <2>4, ErrorFacts DEF JunkInv
    <3>3. errors[i].len <= Floor
      <4>1. CASE i = Len(errors)
        BY <2>1, <3>1, <4>1
      <4>2. CASE i # Len(errors)
        BY <1>k, <2>1, <3>1, <3>2, <4>2 DEF ErrorsRise
      <4> QED
        BY <4>1, <4>2
    <3> QED
      BY <1>k, <2>1, <2>2, <3>2, <3>3
  <2>5. kind = "bds" => \A i \in 1 .. Len(errors) : i <= j <=> errors[i].len <= k
    BY <1>k, <2>4
  <2> HIDE DEF k, j
  <2> QED
    BY <1>k, <2>2, <2>3, <2>5, CutJunk
<1>6. ASSUME NEW k \in 0 .. Len(items) - 1, Unwind(k)
      PROVE  JunkInv'
  <2>1. k \in 0 .. Len(items) /\ items' = SubSeq(items, 1, k) /\ size' = size
    BY <1>k, <1>6 DEF Unwind
  <2>2. PICK j \in 0 .. Len(errors) :
           /\ \A i \in 1 .. j : errors[i].len <= k
           /\ j < Len(errors) => errors[j + 1].len > k
           /\ errors' = SubSeq(errors, 1, j)
    BY <1>6 DEF Unwind
  <2>3. ASSUME kind = "bds", NEW i \in 1 .. Len(errors), j < i
        PROVE  errors[i].len > k
    <3>1. j + 1 \in 1 .. Len(errors) /\ errors[j + 1].len > k
      BY <1>k, <2>2, <2>3
    <3>2. errors[i].len \in Nat /\ errors[j + 1].len \in Nat
      BY <3>1, ErrorFacts
    <3>3. i = j + 1 \/ errors[j + 1].len < errors[i].len
      BY <1>k, <2>3, <3>1 DEF JunkInv, ErrorsRise
    <3> QED
      BY <3>1, <3>2, <3>3
  <2>4. \A i \in 1 .. Len(errors) : errors[i].len \in Nat
    BY ErrorFacts
  <2>5. kind = "bds" => \A i \in 1 .. Len(errors) : i <= j <=> errors[i].len <= k
    BY <1>k, <2>2, <2>3, <2>4
  <2> QED
    BY <1>k, <2>1, <2>2, <2>5, CutJunk
<1>7. ASSUME NEW n \in Limits[kind], SetLimit(n)
      PROVE  JunkInv'
  <2>1. items # <<>> /\ SetSize(n, items) /\ UNCHANGED errors /\ n \in Nat
    BY <1>k, <1>7 DEF SetLimit
  <2>2. items' \in Seq(Tag \cup {Junk}) /\ size' \in Nat
    BY <2>1, SetSizeTypes DEF JunkInv
  <2>3. kind = "bds" => items' = items
    BY <2>1 DEF SetSize
  <2> QED
    BY <1>k, <2>1, <2>2, <2>3 DEF JunkInv, JunkIsPending, ErrorsRise
<1>8. CASE UNCHANGED vars
  BY <1>8 DEF vars, JunkInv, JunkIsPending, ErrorsRise
<1> QED
  BY <1>2, <1>3, <1>4, <1>5, <1>6, <1>7, <1>8 DEF StackNext

(* The stacks of init_stacks satisfy it.                                   *)
LEMMA InitJunk == StackInit => JunkInv
<1> SUFFICES ASSUME StackInit
             PROVE  JunkInv
  OBVIOUS
<1>1. /\ items \in Seq(Tag \cup {Junk}) /\ Len(items) = 0
      /\ errors \in Seq(Error) /\ Len(errors) = 0
  BY DEF StackInit
<1>2. size \in Nat /\ kind \in Kinds
  BY StackAssumption DEF StackInit
<1> QED
  BY <1>1, <1>2 DEF JunkInv, JunkIsPending, ErrorsRise

(* The slots of the binding stack nobody has written are those of the      *)
(* overflow errors being handled, however these nest, are continued or     *)
(* unwound, and whatever sizes are set meanwhile (ecl_bds_overflow).       *)
THEOREM StackJunkIsPending == StackSpec => []JunkIsPending
<1>1. JunkInv => JunkIsPending
  BY DEF JunkInv
<1> QED
  BY <1>1, InitJunk, NextJunk, PTL DEF StackSpec

(* ecl_bds_set_size, called to continue an overflow, moves every binding   *)
(* to the new array and completes the push on top of them.                 *)
THEOREM ExtendLosesNoBinding == StackSpec => ExtendKeepsBindings
<1>1. JunkInv /\ [StackNext]_vars => [Extend /\ kind = "bds" => PushedOnTop]_vars
  <2> SUFFICES ASSUME JunkInv, Extend, kind = "bds"
               PROVE  PushedOnTop
    OBVIOUS
  <2>1. /\ Len(items) \in Nat \ {0}
        /\ items' = [items EXCEPT ![Len(items)] = LastError.v]
        /\ Len(items') = Len(items)
    BY ExtendBds
  <2>2. \A i \in 1 .. Len(items) - 1 : items'[i] = items[i]
    BY ExtendBds
  <2> QED
    BY <2>1, <2>2 DEF PushedOnTop
<1> QED
  BY <1>1, InitJunk, NextJunk, PTL DEF StackSpec, ExtendKeepsBindings
=============================================================================
