---------------------------- MODULE FlagRegister ----------------------------
(***************************************************************************)
(* What the flag store promises: every key holds nothing or one flag, and  *)
(* the flags change one at a time, each change a single step.              *)
(***************************************************************************)
EXTENDS Naturals

CONSTANTS
    Keys,          \* flag keys
    VariantSets,   \* the sets of variants a flag may define
    PinSets,       \* the sets of variants its rules may pin
    Offs,          \* the variants off_variant may name
    Blank,         \* a name that stands for none
    NoVariant      \* off_variant when there is none

VARIABLES
    reg,           \* the flag under each key
    nextId         \* the next identity to be given out

\* The parts of a flag that constrain each other.
Content == [variants : VariantSets, pins : PinSets, off : Offs \cup {NoVariant}]

\* A rule pins, and off_variant names, only variants the flag defines.
Coherent(c) ==
    /\ c.pins \subseteq c.variants \cup {Blank}
    /\ c.off \in c.variants \cup {NoVariant, Blank}

Flag(id, ver, c) ==
    [id |-> id, ver |-> ver, variants |-> c.variants, pins |-> c.pins, off |-> c.off]

NoFlag == Flag(0, 0, [variants |-> {}, pins |-> {}, off |-> NoVariant])

Init == reg = [k \in Keys |-> NoFlag] /\ nextId = 1

\* A new flag never has the identity of an earlier one.
Create(k) ==
    /\ reg[k] = NoFlag
    /\ \E c \in Content : Coherent(c) /\ reg' = [reg EXCEPT ![k] = Flag(nextId, 1, c)]
    /\ nextId' = nextId + 1

\* A change leaves the identity, takes the next version, and leaves the flag
\* coherent.
Update(k) ==
    /\ reg[k] # NoFlag
    /\ \E c \in Content :
          Coherent(c) /\ reg' = [reg EXCEPT ![k] = Flag(@.id, @.ver + 1, c)]
    /\ UNCHANGED nextId

Delete(k) ==
    /\ reg[k] # NoFlag
    /\ reg' = [reg EXCEPT ![k] = NoFlag]
    /\ UNCHANGED nextId

Next == \E k \in Keys : Create(k) \/ Update(k) \/ Delete(k)

Spec == Init /\ [][Next]_<<reg, nextId>>
=============================================================================
