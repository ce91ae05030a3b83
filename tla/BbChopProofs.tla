---------------------------- MODULE BbChopProofs ----------------------------
(***************************************************************************)
(* What is proved about BbChop for all binaries, however large and with    *)
(* whatever sections, symbols and instructions: the addresses are unsigned *)
(* 64-bit numbers, the sweep tiles each section, and the result cuts the   *)
(* code into basic blocks.                                                 *)
(***************************************************************************)
EXTENDS BbChop, TLAPS

LEMMA Sizes ==
  /\ FileSize \in Nat /\ AddressSpace \in Nat \ {0} /\ JumpLimit \in Nat
  /\ UInt16 \in Nat \ {0} /\ LONGEST_POSSIBLE_INSTRUCTION \in Nat
  /\ FileSize <= JumpLimit
  /\ FileSize + LONGEST_POSSIBLE_INSTRUCTION < AddressSpace
BY SizesAssumption, InstructionsAssumption

(***************************************************************************)
(* The unsigned value of any integer is an address.                        *)
(***************************************************************************)
LEMMA UnsignedIsAddress == ASSUME NEW n \in Int PROVE Unsigned(n) \in Address
BY Sizes DEF Unsigned, Address

(***************************************************************************)
(* The bytes at an offset: no instruction, or one of those known.          *)
(***************************************************************************)
LEMMA BytesType ==
  ASSUME NEW bytes \in Instructions \cup {Undecodable}
  PROVE  /\ Advance(bytes) \in Nat \ {0}
         /\ Advance(bytes) <= LONGEST_POSSIBLE_INSTRUCTION \/ Advance(bytes) = 1
         /\ bytes = Undecodable => Advance(bytes) = 1
         /\ bytes # Undecodable => /\ bytes \in Instructions
                                   /\ Advance(bytes) = bytes.length
                                   /\ decodes(bytes, LONGEST_POSSIBLE_INSTRUCTION + 1)
                                   /\ bytes.length \in Nat \ {0}
                                   /\ bytes.length <= LONGEST_POSSIBLE_INSTRUCTION
                                   /\ bytes.displacement \in Int
<1>1. CASE bytes = Undecodable
  BY <1>1, UndecodableAssumption DEF Advance, decodes
<1>2. CASE bytes \in Instructions
  <2>1. /\ bytes.length \in 1..LONGEST_POSSIBLE_INSTRUCTION /\ bytes.displacement \in Int
        /\ LONGEST_POSSIBLE_INSTRUCTION \in Nat
    BY <1>2, InstructionsAssumption
  <2>2. decodes(bytes, LONGEST_POSSIBLE_INSTRUCTION + 1)
    BY <1>2, <2>1 DEF decodes
  <2> QED
    BY <1>2, <2>1, <2>2, UndecodableAssumption DEF Advance
<1> QED
  BY <1>1, <1>2

(***************************************************************************)
(* What an instruction at an offset of the file adds to the set.           *)
(***************************************************************************)
LEMMA StartsAreAddresses ==
  ASSUME NEW start \in Offsets, NEW bytes \in Instructions \cup {Undecodable}
  PROVE  StartsAfter(start, bytes) \subseteq Address
<1>1. CASE bytes = Undecodable
  BY <1>1, UndecodableAssumption DEF StartsAfter, decodes
<1>2. CASE bytes # Undecodable
  <2>1. /\ bytes.length \in Nat /\ bytes.length <= LONGEST_POSSIBLE_INSTRUCTION
        /\ bytes.displacement \in Int
    BY <1>2, BytesType
  <2>2. start + bytes.length \in Address
    BY <2>1, Sizes DEF Offsets, Address
  <2>3. Unsigned(bytes.displacement + start + bytes.length) \in Address
    <3>1. bytes.displacement + start + bytes.length \in Int
      BY <2>1 DEF Offsets
    <3> QED
      BY <3>1, UnsignedIsAddress
  <2> QED
    BY <2>2, <2>3 DEF StartsAfter, Target
<1> QED
  BY <1>1, <1>2

-----------------------------------------------------------------------------
(***************************************************************************)
(* The inductive invariant.  Order: nothing is swept before its section's  *)
(* turn.  Behind: what was swept in the current section lies behind the    *)
(* window; with Apart it makes the extents disjoint.  Covered: what the    *)
(* window has passed is covered.  StartsKept: whatever a swept instruction *)
(* adds stays in the set.                                                  *)
(***************************************************************************)
Order ==
  /\ pc \in {"sections", "symbols", "overrun"} => swept = {}
  /\ \A s \in Sections : \A p \in SweptIn(s) : s <= section

Behind == pc = "decode" => \A p \in SweptIn(section) : p + Extent(p) <= decode_window_start

Apart == \A s \in Sections : \A p, q \in SweptIn(s) : p < q => p + Extent(p) <= q

Reached(s, x) == Passed(s) \/ (pc = "decode" /\ s = section /\ x < decode_window_start)

InSection(s, x) == sections[s].base <= x /\ x < SectionEnd(s)

CoveredAt(s, x) == \E p \in SweptIn(s) : p <= x /\ x < p + Extent(p)

Covered ==
  \A s \in Sections : \A x \in Offsets : InSection(s, x) /\ Reached(s, x) => CoveredAt(s, x)

StartsKept ==
  \A s \in Sections : \A p \in SweptIn(s) : StartsAfter(p, code[p]) \subseteq addrs

Inv == TypeOK /\ Order /\ Behind /\ Apart /\ Covered /\ StartsKept

LEMMA LayoutFacts ==
  ASSUME TypeOK, NEW s \in Sections
  PROVE  /\ sections[s].base \in Nat /\ sections[s].size \in Nat
         /\ SectionEnd(s) \in Nat /\ SectionEnd(s) <= FileSize
         /\ SectionEnd(s) = sections[s].base + sections[s].size
         /\ sections[s].base <= SectionEnd(s)
<1>1. sections \in [Sections -> [base : Nat, size : Nat]]
  BY DEF TypeOK, Layout
<1>2. sections[s].base + sections[s].size <= FileSize
  BY DEF TypeOK, Layout
<1>3. sections[s].base \in Nat /\ sections[s].size \in Nat
  BY <1>1
<1> QED
  BY <1>2, <1>3 DEF SectionEnd

LEMMA InitInv == Init => Inv
<1> SUFFICES ASSUME Init PROVE Inv
  OBVIOUS
<1> USE DEF Init
<1>1. Sections # {} /\ 0 \in Sections
  BY DEF Sections, NUMBER_OF_SECTIONS
<1>2. sections \in Layout
  BY LayoutsAssumption
<1>3. symtab \in Seq(Symbol)
  BY DEF BoundedSeq, SeqOf
<1>4. decode_window_start \in 0..(FileSize + LONGEST_POSSIBLE_INSTRUCTION)
  BY Sizes
<1>5. TypeOK
  BY <1>1, <1>2, <1>3, <1>4 DEF TypeOK
<1>6. \A s \in Sections : SweptIn(s) = {}
  BY DEF SweptIn
<1>7. \A s \in Sections : ~Passed(s)
  BY DEF Passed
<1> QED
  BY <1>5, <1>6, <1>7 DEF Inv, Order, Behind, Apart, Covered, Reached, StartsKept

-----------------------------------------------------------------------------
(***************************************************************************)
(* One lemma for each action.                                              *)
(***************************************************************************)
LEMMA SectionBoundsAreAddresses == TypeOK => SectionBounds \subseteq Address
<1> SUFFICES ASSUME TypeOK, NEW s \in BoundedSections
             PROVE  sections[s].base \in Address /\ SectionEnd(s) \in Address
  BY DEF SectionBounds
<1>1. s \in Sections
  BY DEF BoundedSections, INIT, FINI, Sections, NUMBER_OF_SECTIONS
<1> QED
  BY <1>1, LayoutFacts, Sizes DEF Address

LEMMA SymbolBoundsAreAddresses == TypeOK => SymbolBounds \subseteq Address
<1> SUFFICES ASSUME TypeOK, NEW i \in Kept
             PROVE  /\ Unsigned(symtab[i].value) \in Address
                    /\ Unsigned(symtab[i].value + symtab[i].size) \in Address
  BY DEF SymbolBounds
<1>1. symtab[i] \in Symbol
  BY DEF Kept, TypeOK
<1>2. symtab[i].value \in Int /\ symtab[i].size \in Nat
  BY <1>1, SymbolAssumption
<1>3. symtab[i].value + symtab[i].size \in Int
  BY <1>2
<1> QED
  BY <1>2, <1>3, UnsignedIsAddress

LEMMA InsertSectionsInv == Inv /\ InsertSections => Inv'
<1> SUFFICES ASSUME Inv, InsertSections PROVE Inv'
  OBVIOUS
<1> USE DEF InsertSections, inputs
<1>1. SectionBounds \subseteq Address
  BY SectionBoundsAreAddresses DEF Inv
<1>2. TypeOK'
  BY <1>1 DEF Inv, TypeOK
<1>3. \A s \in Sections : SweptIn(s)' = {}
  BY DEF Inv, Order, SweptIn
<1>4. \A s \in Sections : ~Passed(s)'
  BY DEF Passed
<1> QED
  BY <1>2, <1>3, <1>4 DEF Inv, Order, Behind, Apart, Covered, Reached, StartsKept

LEMMA InsertSymbolsInv == Inv /\ InsertSymbols => Inv'
<1> SUFFICES ASSUME Inv, InsertSymbols PROVE Inv'
  OBVIOUS
<1> USE DEF InsertSymbols, inputs
<1>1. SymbolBounds \subseteq Address
  BY SymbolBoundsAreAddresses DEF Inv
<1>2. 0 \in Sections
  BY DEF Sections, NUMBER_OF_SECTIONS
<1>3. sections[0].base \in 0..(FileSize + LONGEST_POSSIBLE_INSTRUCTION)
  BY <1>2, LayoutFacts, Sizes DEF Inv
<1>4. TypeOK'
  BY <1>1, <1>2, <1>3 DEF Inv, TypeOK
<1>5. \A s \in Sections : SweptIn(s)' = {}
  BY DEF Inv, Order, SweptIn
<1>6. \A s \in Sections, x \in Offsets : InSection(s, x)' => ~Reached(s, x)'
  <2> SUFFICES ASSUME NEW s \in Sections, NEW x \in Offsets, InSection(s, x), Reached(s, x)'
               PROVE  FALSE
    BY DEF InSection, SectionEnd
  <2>1. ~Passed(s)'
    BY Sizes DEF Passed, Sections, NUMBER_OF_SECTIONS
  <2>2. s = 0 /\ x < sections[0].base
    BY <2>1 DEF Reached
  <2> QED
    BY <2>2, <1>2, LayoutFacts DEF Inv, InSection, Offsets
<1> QED
  BY <1>2, <1>4, <1>5, <1>6 DEF Inv, Order, Behind, Apart, Covered, StartsKept

LEMMA OverrunSymbolsInv == Inv /\ OverrunSymbols => Inv'
<1> SUFFICES ASSUME Inv, OverrunSymbols PROVE Inv'
  OBVIOUS
<1> USE DEF OverrunSymbols, inputs
<1>1. TypeOK'
  BY DEF Inv, TypeOK
<1>2. \A s \in Sections : SweptIn(s)' = {}
  BY DEF Inv, Order, SweptIn
<1>3. \A s \in Sections : ~Passed(s)'
  BY DEF Passed
<1> QED
  BY <1>1, <1>2, <1>3 DEF Inv, Order, Behind, Apart, Covered, Reached, StartsKept

(***************************************************************************)
(* Decoding at the window: the new extent starts where everything swept    *)
(* in this section has ended, and reaches to the new window.               *)
(***************************************************************************)
LEMMA DecodeInv == Inv /\ Decode => Inv'
<1> SUFFICES ASSUME Inv, Decode PROVE Inv'
  OBVIOUS
<1> DEFINE w == decode_window_start
           bytes == code[w]
<1>1. section \in Sections /\ TypeOK
  BY DEF Inv, TypeOK
<1>2. w \in Nat /\ w < SectionEnd(section) /\ SectionEnd(section) <= FileSize
  BY <1>1, LayoutFacts, Sizes DEF Decode, TypeOK
<1>3. w \in Offsets
  BY <1>1, <1>2, LayoutFacts, Sizes DEF Offsets
<1>4. bytes \in Instructions \cup {Undecodable}
  BY <1>1, <1>3 DEF TypeOK
<1>5. /\ Advance(bytes) \in Nat \ {0}
      /\ Advance(bytes) <= LONGEST_POSSIBLE_INSTRUCTION \/ Advance(bytes) = 1
      /\ Advance(bytes) = Extent(w)
  BY <1>4, BytesType DEF Extent
<1>6. /\ decode_window_start' = w + Extent(w)
      /\ addrs' = addrs \cup StartsAfter(w, bytes)
      /\ swept' = swept \cup {<<section, w>>}
      /\ pc = "decode" /\ pc' = "decode" /\ section' = section
      /\ sections' = sections /\ symtab' = symtab /\ code' = code
  BY <1>5 DEF Decode, inputs
<1>7. TypeOK'
  <2>1. decode_window_start' \in 0..(FileSize + LONGEST_POSSIBLE_INSTRUCTION)
    <3>1. w + Extent(w) \in Nat
      BY <1>2, <1>5
    <3>2. w + Extent(w) <= FileSize + LONGEST_POSSIBLE_INSTRUCTION
      BY <1>1, <1>2, <1>5, LayoutFacts, Sizes
    <3> QED
      BY <3>1, <3>2, <1>6, Sizes
  <2>2. addrs' \subseteq Address
    BY <1>1, <1>3, <1>4, <1>6, StartsAreAddresses DEF TypeOK
  <2>3. swept' \subseteq Sections \X Offsets
    BY <1>1, <1>3, <1>6 DEF TypeOK
  <2> QED
    BY <1>1, <1>6, <2>1, <2>2, <2>3 DEF TypeOK
<1>8. /\ \A s \in Sections : s # section => SweptIn(s)' = SweptIn(s)
      /\ SweptIn(section)' = SweptIn(section) \cup {w}
      /\ \A p \in Offsets : Extent(p)' = Extent(p)
      /\ \A s \in Sections : Passed(s)' = Passed(s) /\ SectionEnd(s)' = SectionEnd(s)
  BY <1>1, <1>3, <1>6 DEF SweptIn, Extent, Passed, SectionEnd
<1>9. \A s \in Sections : \A p :
          p \in SweptIn(s)' <=> p \in SweptIn(s) \/ (s = section /\ p = w)
  BY <1>1, <1>3, <1>6 DEF SweptIn
<1>10. \A p \in SweptIn(section) : p \in Nat /\ Extent(p) \in Nat \ {0} /\ p + Extent(p) <= w
  <2> SUFFICES ASSUME NEW p \in SweptIn(section)
               PROVE  p \in Nat /\ Extent(p) \in Nat \ {0} /\ p + Extent(p) <= w
    OBVIOUS
  <2>1. p \in Offsets
    BY DEF SweptIn
  <2>2. Extent(p) \in Nat \ {0}
    BY <1>1, <2>1, BytesType DEF TypeOK, Extent
  <2>3. p + Extent(p) <= w
    BY <1>6 DEF Inv, Behind
  <2> QED
    BY <2>1, <2>2, <2>3 DEF Offsets
<1> HIDE DEF w, bytes
<1>11. Order'
  BY <1>1, <1>6, <1>8, Sizes DEF Inv, Order, Sections, NUMBER_OF_SECTIONS
<1>12. Behind'
  <2> SUFFICES ASSUME NEW p \in SweptIn(section) \cup {w}
               PROVE  p + Extent(p) <= w + Extent(w)
    BY <1>6, <1>8, <1>3 DEF Behind, SweptIn
  <2>1. CASE p = w
    BY <2>1, <1>2, <1>5
  <2>2. CASE p \in SweptIn(section)
    BY <2>2, <1>10, <1>2, <1>5
  <2> QED
    BY <2>1, <2>2
<1>13. Apart'
  <2> SUFFICES ASSUME NEW s \in Sections, NEW p \in SweptIn(s)', NEW q \in SweptIn(s)', p < q
               PROVE  p + Extent(p) <= q
    BY <1>8 DEF Apart, SweptIn
  <2>1. CASE s # section
    BY <2>1, <1>8 DEF Inv, Apart
  <2>2. CASE s = section
    <3>1. p \in SweptIn(section) \cup {w} /\ q \in SweptIn(section) \cup {w}
      BY <2>2, <1>9
    <3>2. CASE p \in SweptIn(section) /\ q \in SweptIn(section)
      BY <3>2, <1>1 DEF Inv, Apart
    <3>3. CASE p \in SweptIn(section) /\ q = w
      BY <3>3, <1>10
    <3>4. CASE p = w /\ q \in SweptIn(section)
      BY <3>4, <1>10, <1>2
    <3>5. CASE p = w /\ q = w
      BY <3>5, <1>2
    <3> QED
      BY <3>1, <3>2, <3>3, <3>4, <3>5
  <2> QED
    BY <2>1, <2>2
<1>14. Covered'
  <2> SUFFICES ASSUME NEW s \in Sections, NEW x \in Offsets, InSection(s, x), Reached(s, x)'
               PROVE  \E p \in SweptIn(s)' : p <= x /\ x < p + Extent(p)
    BY <1>6, <1>8 DEF Covered, CoveredAt, InSection, SweptIn
  <2>1. CASE Reached(s, x)
    <3>1. PICK p \in SweptIn(s) : p <= x /\ x < p + Extent(p)
      BY <2>1 DEF Inv, Covered, CoveredAt
    <3>2. p \in SweptIn(s)'
      BY <1>9
    <3> QED
      BY <3>1, <3>2
  <2>2. CASE ~Reached(s, x)
    <3>1. s = section /\ ~(x < w) /\ x < w + Extent(w)
      BY <2>2, <1>6, <1>8 DEF Reached, w
    <3>2. w <= x
      BY <3>1, <1>2 DEF Offsets
    <3>3. w \in SweptIn(s)'
      BY <3>1, <1>9
    <3> QED
      BY <3>1, <3>2, <3>3
  <2> QED
    BY <2>1, <2>2
<1>15. StartsKept'
  <2> SUFFICES ASSUME NEW s \in Sections, NEW p \in SweptIn(s)'
               PROVE  StartsAfter(p, code[p]) \subseteq addrs'
    BY <1>6 DEF StartsKept
  <2>1. CASE p \in SweptIn(s)
    BY <2>1, <1>6 DEF Inv, StartsKept
  <2>2. CASE p \notin SweptIn(s)
    BY <2>2, <1>6, <1>8 DEF bytes
  <2> QED
    BY <2>1, <2>2
<1> QED
  BY <1>7, <1>11, <1>12, <1>13, <1>14, <1>15 DEF Inv

LEMMA NextSectionInv == Inv /\ NextSection => Inv'
<1> SUFFICES ASSUME Inv, NextSection PROVE Inv'
  OBVIOUS
<1>1. /\ section \in Sections /\ section + 1 \in Sections /\ section \in Nat /\ TypeOK
      /\ pc = "decode" /\ pc' = "decode" /\ section' = section + 1
      /\ decode_window_start >= SectionEnd(section)
      /\ decode_window_start' = sections[section + 1].base
      /\ addrs' = addrs /\ swept' = swept
      /\ sections' = sections /\ symtab' = symtab /\ code' = code
  BY DEF NextSection, Inv, TypeOK, inputs, Sections, NUMBER_OF_SECTIONS
<1>2. decode_window_start' \in 0..(FileSize + LONGEST_POSSIBLE_INSTRUCTION)
  BY <1>1, LayoutFacts, Sizes
<1>3. TypeOK'
  BY <1>1, <1>2 DEF TypeOK
<1>4. /\ \A s \in Sections : SweptIn(s)' = SweptIn(s)
      /\ \A p \in Offsets : Extent(p)' = Extent(p)
      /\ \A s \in Sections, x \in Offsets : InSection(s, x)' = InSection(s, x)
  BY <1>1 DEF SweptIn, Extent, InSection, SectionEnd
<1>5. \A s \in Sections : s \in Nat
  BY DEF Sections, NUMBER_OF_SECTIONS
<1>6. SweptIn(section + 1) = {}
  <2> SUFFICES ASSUME NEW p \in SweptIn(section + 1) PROVE FALSE
    OBVIOUS
  <2>1. section + 1 <= section
    BY <1>1 DEF Inv, Order
  <2> QED
    BY <2>1, <1>1
<1>7. Order'
  <2> SUFFICES ASSUME NEW s \in Sections, NEW p \in SweptIn(s) PROVE s <= section + 1
    BY <1>1, <1>4 DEF Order
  <2>1. s <= section
    BY DEF Inv, Order
  <2> QED
    BY <2>1, <1>1, <1>5
<1>8. Behind'
  BY <1>1, <1>4, <1>6 DEF Behind
<1>9. Apart'
  BY <1>4 DEF Inv, Apart, SweptIn
<1>10. Covered'
  <2> SUFFICES ASSUME NEW s \in Sections, NEW x \in Offsets, InSection(s, x), Reached(s, x)'
               PROVE  CoveredAt(s, x)
    BY <1>4 DEF Covered, CoveredAt, SweptIn
  <2>1. ~(s = section + 1 /\ x < sections[section + 1].base)
    BY <1>1, LayoutFacts DEF InSection, Offsets
  <2>2. s < section + 1
    BY <1>1, <2>1 DEF Reached, Passed
  <2>3. CASE s < section
    <3>1. Reached(s, x)
      BY <2>3, <1>1 DEF Reached, Passed
    <3> QED
      BY <3>1 DEF Inv, Covered
  <2>4. CASE s = section
    <3>1. x \in Nat /\ decode_window_start \in Nat /\ SectionEnd(section) \in Nat
      BY <1>1, LayoutFacts, Sizes DEF Offsets, TypeOK
    <3>2. x < decode_window_start
      BY <3>1, <2>4, <1>1 DEF InSection
    <3> QED
      BY <3>2, <2>4, <1>1 DEF Inv, Covered, Reached
  <2> QED
    BY <2>2, <2>3, <2>4, <1>1, <1>5
<1>11. StartsKept'
  BY <1>1, <1>4 DEF Inv, StartsKept
<1> QED
  BY <1>3, <1>7, <1>8, <1>9, <1>10, <1>11 DEF Inv

LEMMA ReturnInv == Inv /\ Return => Inv'
<1> SUFFICES ASSUME Inv, Return PROVE Inv'
  OBVIOUS
<1>1. /\ section \in Sections /\ section + 1 \notin Sections /\ section \in Nat /\ TypeOK
      /\ pc = "decode" /\ pc' = "done" /\ section' = section
      /\ decode_window_start >= SectionEnd(section)
      /\ decode_window_start' = decode_window_start
      /\ addrs' = addrs /\ swept' = swept
      /\ sections' = sections /\ symtab' = symtab /\ code' = code
  BY DEF Return, Inv, TypeOK, inputs, Sections, NUMBER_OF_SECTIONS
<1>2. TypeOK'
  BY <1>1 DEF TypeOK
<1>3. /\ \A s \in Sections : SweptIn(s)' = SweptIn(s)
      /\ \A p \in Offsets : Extent(p)' = Extent(p)
      /\ \A s \in Sections, x \in Offsets : InSection(s, x)' = InSection(s, x)
  BY <1>1 DEF SweptIn, Extent, InSection, SectionEnd
<1>4. Order' /\ Behind' /\ StartsKept'
  BY <1>1, <1>3 DEF Inv, Order, Behind, StartsKept
<1>5. Apart'
  BY <1>3 DEF Inv, Apart, SweptIn
<1>6. Covered'
  <2> SUFFICES ASSUME NEW s \in Sections, NEW x \in Offsets, InSection(s, x)
               PROVE  CoveredAt(s, x)
    BY <1>3 DEF Covered, CoveredAt, SweptIn
  <2>1. s < section \/ s = section
    BY <1>1 DEF Sections, NUMBER_OF_SECTIONS
  <2>2. CASE s < section
    <3>1. Reached(s, x)
      BY <2>2, <1>1 DEF Reached, Passed
    <3> QED
      BY <3>1 DEF Inv, Covered
  <2>3. CASE s = section
    <3>1. x \in Nat /\ decode_window_start \in Nat /\ SectionEnd(section) \in Nat
      BY <1>1, LayoutFacts, Sizes DEF Offsets, TypeOK
    <3>2. x < decode_window_start
      BY <3>1, <2>3, <1>1 DEF InSection
    <3> QED
      BY <3>2, <2>3, <1>1 DEF Inv, Covered, Reached
  <2> QED
    BY <2>1, <2>2, <2>3
<1> QED
  BY <1>2, <1>4, <1>5, <1>6 DEF Inv

LEMMA StutterInv == Inv /\ UNCHANGED vars => Inv'
<1> SUFFICES ASSUME Inv, UNCHANGED vars PROVE Inv'
  OBVIOUS
<1> USE DEF vars, inputs
<1>1. TypeOK' /\ Order'
  BY DEF Inv, TypeOK, Order, SweptIn
<1>2. Behind' /\ Apart'
  BY DEF Inv, Behind, Apart, SweptIn, Extent
<1>3. Covered' /\ StartsKept'
  BY DEF Inv, Covered, CoveredAt, InSection, SectionEnd, Reached, Passed, SweptIn, Extent, StartsKept
<1> QED
  BY <1>1, <1>2, <1>3 DEF Inv
-----------------------------------------------------------------------------
(***************************************************************************)
(* Inv is an invariant of the sweep of every binary.                       *)
(***************************************************************************)
THEOREM Invariance == Spec => []Inv
<1>1. Init => Inv
  BY InitInv
<1>2. Inv /\ [Next]_vars => Inv'
  BY InsertSectionsInv, InsertSymbolsInv, OverrunSymbolsInv, DecodeInv, NextSectionInv,
     ReturnInv, StutterInv DEF Next
<1> QED
  BY <1>1, <1>2, PTL DEF Spec

(***************************************************************************)
(* Every state is well typed: what is returned are unsigned 64-bit numbers *)
(* (xed_bb_chop.cxx:196-300).                                              *)
(***************************************************************************)
THEOREM TypeCorrect == Spec => []TypeOK
<1>1. Inv => TypeOK
  BY DEF Inv
<1> QED
  BY <1>1, Invariance, PTL

(***************************************************************************)
(* Every section is tiled by the instructions and skipped bytes of the     *)
(* sweep, data between the code or not (xed_bb_chop.cxx:252-294).          *)
(***************************************************************************)
THEOREM Tiled == Spec => []SectionsTiled
<1>1. Inv => SectionsTiled
  <2> SUFFICES ASSUME Inv, NEW s \in Sections, Passed(s),
                      NEW x \in sections[s].base..(SectionEnd(s) - 1)
               PROVE  CoveredAt(s, x)
    BY DEF Inv, Apart, SectionsTiled, CoveredAt
  <2>1. /\ sections[s].base \in Nat /\ SectionEnd(s) \in Nat /\ SectionEnd(s) <= FileSize
    BY LayoutFacts DEF Inv
  <2>2. x \in Offsets /\ InSection(s, x)
    BY <2>1, Sizes DEF Offsets, InSection
  <2> QED
    BY <2>2 DEF Inv, Covered, Reached
<1> QED
  BY <1>1, Invariance, PTL

(***************************************************************************)
(* The addresses returned cut the code into basic blocks: one way in, at   *)
(* the start, and one way out, at the end. That is when the sweep has come *)
(* to its end, which a symbol table of more entries than a uint16_t counts *)
(* keeps it from, and for files below the limit on targets, 0x4000000000   *)
(* (xed_bb_chop.cxx:186-194, 267).                                         *)
(***************************************************************************)
THEOREM Basic == Spec => []BlocksAreBasic
<1>1. Inv => BlocksAreBasic
  <2> SUFFICES ASSUME Inv, NEW pair \in Neighbours, NEW p \in Branches
               PROVE  /\ ~(pair[1] <= p /\ p + code[p].length < pair[2])
                      /\ \A inside \in (pair[1] + 1)..(pair[2] - 1) : ~BranchesTo(p, inside)
    BY DEF BlocksAreBasic
  <2>1. /\ pair[1] \in 0..FileSize /\ pair[2] \in 0..FileSize
        /\ \A c \in addrs : ~(pair[1] < c /\ c < pair[2])
    BY DEF Neighbours
  <2>2. p \in Offsets /\ \E s \in Sections : p \in SweptIn(s)
    BY DEF Branches, SweptIn
  <2>3. StartsAfter(p, code[p]) \subseteq addrs
    BY <2>2 DEF Inv, StartsKept
  <2>4. /\ code[p] # Undecodable /\ terminates_bb(code[p])
        /\ code[p] \in Instructions \cup {Undecodable}
    BY <2>2 DEF Branches, Inv, TypeOK
  <2>5. /\ decodes(code[p], LONGEST_POSSIBLE_INSTRUCTION + 1)
        /\ code[p].length \in Nat \ {0} /\ code[p].displacement \in Int
    BY <2>4, BytesType
  <2>6. p + code[p].length \in addrs /\ Target(p, code[p]) \subseteq addrs
    BY <2>3, <2>4, <2>5 DEF StartsAfter
  <2>7. ~(pair[1] <= p /\ p + code[p].length < pair[2])
    <3>1. p \in Nat /\ pair[1] \in Nat /\ pair[2] \in Nat
      BY <2>1, <2>2, Sizes DEF Offsets
    <3>2. ~(pair[1] < p + code[p].length /\ p + code[p].length < pair[2])
      BY <2>1, <2>6
    <3> QED
      BY <3>1, <3>2, <2>5
  <2>8. ASSUME NEW inside \in (pair[1] + 1)..(pair[2] - 1), BranchesTo(p, inside)
        PROVE  FALSE
    <3>1. inside \in Nat /\ inside # 0 /\ inside < JumpLimit
          /\ pair[1] < inside /\ inside < pair[2]
      BY <2>1, Sizes
    <3>2. p + code[p].length + code[p].displacement
            = code[p].displacement + p + code[p].length
      BY <2>2, <2>5 DEF Offsets
    <3>3. inside = Unsigned(code[p].displacement + p + code[p].length)
          /\ code[p].displacement # 0
      BY <2>8, <3>2 DEF BranchesTo, Unsigned
    <3>4. inside \in Target(p, code[p])
      BY <3>1, <3>3 DEF Target
    <3> QED
      BY <3>1, <3>4, <2>1, <2>6
  <2> QED
    BY <2>7, <2>8
<1> QED
  BY <1>1, Invariance, PTL
=============================================================================
