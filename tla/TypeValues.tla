----------------------------- MODULE TypeValues -----------------------------
(***************************************************************************)
(* TypeDescriptor::from_string() and to_string() (TypeDescriptor.cpp) for  *)
(* bool, int, uint16_t, uint32_t and enumerations.  Floating point and     *)
(* text/plain are left out.                                                *)
(*                                                                         *)
(* A value type is [class, bits, signed, names]: class "bool", "int",      *)
(* "uint16", "uint32" or "enum"; names is the sequence of [name, value] an *)
(* enumeration registers.  A stored value is the unsigned number its bits  *)
(* make.  A text is [word, digits, number]: word is the whole text, and    *)
(* digits says whether it begins with a decimal number, which is all that  *)
(* sscanf looks at.                                                        *)
(***************************************************************************)
EXTENDS Integers, Sequences, FiniteSetsExt, TLC

CONSTANT LongBits     \* width of long long and of unsigned long

(* 2^n, as a recursive function: the provers know nothing of ^.             *)
TwoTo(n) == LET power[k \in 0 .. n] == IF k = 0 THEN 1 ELSE 2 * power[k - 1] IN power[n]

Raws(t) == 0 .. TwoTo(t.bits) - 1
Wrapped(n, bits) == n % TwoTo(bits)
SignedOf(t, raw) == IF raw >= TwoTo(t.bits - 1) THEN raw - TwoTo(t.bits) ELSE raw
NumberOf(t, raw) == IF t.signed THEN SignedOf(t, raw) ELSE raw

InRange(t, n) == \E raw \in Raws(t) : NumberOf(t, raw) = n

-----------------------------------------------------------------------------
(* What registration guarantees of a type whose values have a text: it is no*)
(* wider than the long long that its numbers are read as, an enumeration's  *)
(* names differ, and none of them is a number.  Nothing checks the names    *)
(* (TypeMacros.h:33-50); every registered enumeration has such names.       *)
WithText == {"bool", "int", "uint16", "uint32", "enum"}

NamesOK(t) ==
  /\ Len(t.names) \in Nat /\ DOMAIN t.names = 1 .. Len(t.names)
  /\ \A k \in DOMAIN t.names : t.names[k].value \in Int
  /\ \A k, l \in DOMAIN t.names : t.names[k].name = t.names[l].name => k = l
  /\ \A raw \in Raws(t) : \A k \in DOMAIN t.names : t.names[k].name # ToString(NumberOf(t, raw))

ValuesOK(t) ==
  /\ LongBits \in Nat /\ t.bits \in 1 .. LongBits /\ t.signed \in BOOLEAN
  /\ t.class \in {"bool", "uint32"} => ~t.signed
  /\ t.class = "enum" => NamesOK(t)

-----------------------------------------------------------------------------
(* From text.  The result is the set of values that may be stored; it is    *)
(* empty when from_string() returns false.                                  *)

(* sscanf() stores what it reads; a number the type cannot hold is          *)
(* undefined, and anything may be stored.                                   *)
Scanned(t, x) ==
  IF ~x.digits THEN {} ELSE IF InRange(t, x.number) THEN {Wrapped(x.number, t.bits)} ELSE Raws(t)

(* uint32_t is read as an unsigned long and cut.                            *)
ScannedAsLong(t, x) ==
  IF ~x.digits THEN {}
  ELSE IF x.number \in -(TwoTo(LongBits) - 1) .. TwoTo(LongBits) - 1
       THEN {Wrapped(Wrapped(x.number, LongBits), t.bits)}
       ELSE Raws(t)

Bool(x) == IF x.word \in {"1", "true", "TRUE"} THEN {1}
           ELSE IF x.word \in {"0", "false", "FALSE"} THEN {0} ELSE {}

(* A name stands for its registered value, which is 64 bits wide, cast to   *)
(* the enumeration when that is signed and refused when an unsigned one is  *)
(* too small for it.                                                        *)
Named(t, name) == {k \in DOMAIN t.names : t.names[k].name = name}
FirstValue(t, entries) == t.names[Min(entries)].value

Stored64(n) == Wrapped(n, LongBits)

FromName(t, value) ==
  IF t.signed THEN {Wrapped(Stored64(value), t.bits)} ELSE {Stored64(value)} \cap Raws(t)

(* slip: numbers are cut instead of refused.                                *)
FromNumberCut(t, n) == {Wrapped(n, t.bits)}

(* A number is read as (unsigned) long long, and must fit the enumeration.  *)
FromNumber(t, n) ==
  LET m == IF t.signed THEN n ELSE Stored64(n)
  IN IF InRange(t, m) THEN {Wrapped(m, t.bits)} ELSE {}

Enum(t, x) ==
  IF Named(t, x.word) # {} THEN FromName(t, FirstValue(t, Named(t, x.word)))
  ELSE IF x.digits THEN FromNumber(t, x.number) ELSE {}

Parsed(t, x) ==
  CASE t.class = "bool" -> Bool(x)
    [] t.class \in {"int", "uint16"} -> Scanned(t, x)
    [] t.class = "uint32" -> ScannedAsLong(t, x)
    [] t.class = "enum" -> Enum(t, x)
    [] OTHER -> {}

-----------------------------------------------------------------------------
(* To text.                                                                 *)

Number(n) == [word |-> ToString(n), digits |-> TRUE, number |-> n]
Word(s) == [word |-> s, digits |-> FALSE, number |-> 0]

(* slip: values are printed without their sign.                             *)
PrintedUnsigned(t, raw) == Number(raw)

Printed(t, raw) == Number(NumberOf(t, raw))

(* Names are looked up by the bits of the enumeration among the registered  *)
(* 64 bits: a negative value of a narrower type is never found.             *)
NamesOf(t, raw) == {k \in DOMAIN t.names : Stored64(t.names[k].value) = raw}

ToText(t, raw) ==
  CASE t.class = "bool" -> Word(IF raw = 0 THEN "false" ELSE "true")
    [] t.class = "enum" /\ NamesOf(t, raw) # {} -> Word(t.names[Min(NamesOf(t, raw))].name)
    [] OTHER -> Printed(t, raw)

=============================================================================
