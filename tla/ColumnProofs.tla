----------------------------- MODULE ColumnProofs -----------------------------
(***************************************************************************)
(* Proofs about ColumnChange: for every pair of types, every content of    *)
(* the column and every answer of the user.                                *)
(***************************************************************************)
EXTENDS ColumnChange, TLAPS

-----------------------------------------------------------------------------
(* Types and values.                                                         *)

(* What a type has room for is measured by numbers.                          *)
LEMMA RoomIsMeasured ==
    ASSUME NEW type \in Types
    PROVE  /\ Room(type).size \in Int
           /\ Room(type).detail \in Nat
           /\ \A storing \in BOOLEAN : Cuts(type, storing) => Room(type).size \in Nat
<1>1. /\ type.base \in Bases
      /\ type.length \in 0..Longest \/ type.length = Unset \/ type.length = Max
      /\ type.precision \in Nat \/ type.precision = Unset
      /\ type.scale \in Nat \/ type.scale = Unset
      /\ type.digits \in Nat \/ type.digits = Unset
  BY SMT DEF Types
<1>2. TextRoom(type) \in Nat
  <2>1. CASE type.length \in 0..Longest
    <3> Longest \in Nat
      BY DEF Longest
    <3>1. type.length # Unset /\ type.length # Max
      BY <2>1 DEF Unset, Max
    <3>2. TextRoom(type) = type.length
      BY <3>1 DEF TextRoom
    <3>3. QED
      BY <2>1, <3>2
  <2>2. CASE type.length = Unset \/ type.length = Max
    BY <2>2 DEF TextRoom, Unset, Max, Endless
  <2>3. QED
    BY <1>1, <2>1, <2>2
<1>3. NumberRoom(type) \in Int /\ NumberDetail(type) \in Nat
      /\ (type.base = "bit" => NumberRoom(type) \in Nat)
  BY <1>1 DEF NumberRoom, NumberDetail, Precision, Scale, Unset, Decimals, Endless
<1>4. MomentRoom(type) \in Int /\ MomentDetail(type) \in Nat
  BY <1>1 DEF MomentRoom, MomentDetail, Digits, Unset
<1>5. QED
  BY <1>1, <1>2, <1>3, <1>4 DEF Room, Cuts, Endless, Bases, Families, Strings, Bytes, Numbers, Moments,
     Decimals, Fractional, Others

(* A value that fits loses nothing when it is squeezed.                      *)
LEMMA FittingStays ==
    ASSUME NEW type \in Types, NEW v, IsValue(v), Fits(v, type)
    PROVE  /\ Squeezed(v, type) = v
           /\ \A storing \in BOOLEAN : Converted(v, type, storing) = {v}
<1>1. Squeezed(v, type) = v
  <2>1. /\ Least(v.size, Room(type).size) = v.size
        /\ Least(v.detail, Room(type).detail) = v.detail
        /\ v.parts \cap Room(type).parts = v.parts
    BY DEF Fits, Least
  <2>2. QED
    BY <2>1 DEF Squeezed, IsValue, IsMeasured
<1>2. QED
  BY <1>1 DEF Converted, Into, Fits

(* What is squeezed into a type fits it, if its size does or is cut.         *)
LEMMA SqueezedFits ==
    ASSUME NEW type \in Types, NEW v, IsMeasured(v), v.kind = Kind(type),
           v.kind = "text" => IsValue(v),
           v.size <= Room(type).size \/ Room(type).size \in Nat
    PROVE  IsValue(Squeezed(v, type)) /\ Fits(Squeezed(v, type), type)
<1> DEFINE w == Squeezed(v, type)
<1>1. Room(type).size \in Int /\ Room(type).detail \in Nat
  BY RoomIsMeasured
<1>2. w = [kind |-> v.kind, size |-> Least(v.size, Room(type).size),
           detail |-> Least(v.detail, Room(type).detail),
           parts |-> v.parts \cap Room(type).parts, spells |-> v.spells]
  BY DEF Squeezed, IsMeasured
<1>3. /\ Least(v.size, Room(type).size) \in Nat
      /\ Least(v.size, Room(type).size) <= Room(type).size
      /\ Least(v.detail, Room(type).detail) \in Nat
      /\ Least(v.detail, Room(type).detail) <= Room(type).detail
  BY <1>1 DEF Least, IsMeasured
<1>4. IsMeasured(w)
  BY <1>2, <1>3 DEF IsMeasured
<1>5. QED
  BY <1>2, <1>3, <1>4 DEF IsValue, Fits

(* What a conversion yields is a value of the new type.                      *)
LEMMA ConvertedFits ==
    ASSUME NEW type \in Types, NEW v, IsValue(v), NEW storing \in BOOLEAN,
           NEW w \in Converted(v, type, storing)
    PROVE  IsValue(w) /\ Fits(w, type)
<1>1. ASSUME NEW u, IsMeasured(u), u.kind = Kind(type), u.kind = "text" => IsValue(u),
             w \in Into(u, type, storing)
      PROVE  IsValue(w) /\ Fits(w, type)
  BY <1>1, SqueezedFits, RoomIsMeasured DEF Into
<1>2. CASE v.kind = Kind(type)
  <2>1. Converted(v, type, storing) = Into(v, type, storing)
    BY <1>2 DEF Converted
  <2>2. QED
    BY <1>1, <1>2, <2>1 DEF IsValue
<1>3. CASE v.kind # "text" /\ Kind(type) = "text"
  <2>1. w = Spelling(v) /\ w.size <= Room(type).size
    BY <1>3 DEF Converted
  <2>2. IsValue(w)
    <3>1. v.size \div 3 + 1 + v.detail \in Nat
      BY DEF IsValue, IsMeasured
    <3>2. QED
      BY <2>1, <3>1 DEF Spelling, IsValue, IsMeasured
  <2>3. type.base \in Strings
    BY <1>3 DEF Kind
  <2>4. Room(type).detail = 0 /\ "ascii" \in Room(type).parts
    BY <2>3 DEF Room, Letters, Scripts, Strings, Unicode, Numbers, Moments, Bytes, Decimals, Fractional
  <2>5. QED
    BY <1>3, <2>1, <2>2, <2>4 DEF Fits, Spelling
<1>4. CASE v.kind = "text" /\ Kind(type) = "bytes"
  <2>1. w \in Into(AsBytes(v), type, storing)
    BY <1>4 DEF Converted
  <2>2. IsMeasured(AsBytes(v)) /\ AsBytes(v).kind = "bytes"
    BY DEF AsBytes, IsValue, IsMeasured
  <2>3. QED
    BY <1>1, <1>4, <2>1, <2>2
<1>5. CASE v.kind = "text" /\ Kind(type) \notin {"text", "bytes"}
  <2>1. PICK u \in v.spells : u.kind = Kind(type) /\ w \in Into(u, type, storing)
    BY <1>5 DEF Converted
  <2>2. QED
    BY <1>1, <1>5, <2>1 DEF IsValue
<1>6. CASE v.kind # "text" /\ v.kind # Kind(type) /\ Kind(type) # "text"
  BY <1>6 DEF Converted
<1>7. QED
  BY <1>2, <1>3, <1>4, <1>5, <1>6

(* The type a value is queried as differs from the target in its code page.  *)
LEMMA QueriedRoom ==
    ASSUME NEW old \in Types, NEW new \in Types, NEW type \in {Queried(old, new), Named(new)}
    PROVE  /\ type \in Types /\ Kind(type) = Kind(new)
           /\ Room(type).size = Room(new).size /\ Room(type).detail = Room(new).detail
           /\ Kind(new) # "text" => Room(type) = Room(new)
           /\ \A storing \in BOOLEAN : Cuts(type, storing) = Cuts(new, storing)
<1>1. PICK page \in {"none", "latin", "greek"} : type = [new EXCEPT !.page = page]
  BY DEF Queried, Named, Types
<1>2. /\ type \in Types /\ type.base = new.base /\ type.length = new.length
      /\ type.precision = new.precision /\ type.scale = new.scale /\ type.digits = new.digits
  BY <1>1 DEF Types
<1>3. Kind(type) = Kind(new) /\ \A storing \in BOOLEAN : Cuts(type, storing) = Cuts(new, storing)
  BY <1>2 DEF Kind, Cuts
<1>4. /\ TextRoom(type) = TextRoom(new)
      /\ NumberRoom(type) = NumberRoom(new) /\ NumberDetail(type) = NumberDetail(new)
      /\ MomentRoom(type) = MomentRoom(new) /\ MomentDetail(type) = MomentDetail(new)
      /\ MomentParts(type) = MomentParts(new)
  BY <1>2 DEF TextRoom, NumberRoom, NumberDetail, MomentRoom, MomentDetail, MomentParts,
     Precision, Scale, Digits
<1>5. CASE new.base \in Strings
  <2>1. Kind(new) = "text"
    BY <1>5 DEF Kind, Strings, Unicode, Numbers, Moments, Bytes, Decimals, Fractional
  <2>2. QED
    BY <1>2, <1>3, <1>4, <1>5, <2>1 DEF Room
<1>6. CASE new.base \notin Strings
  <2>1. Room(type) = Room(new)
    BY <1>2, <1>4, <1>6 DEF Room
  <2>2. QED
    BY <1>2, <1>3, <2>1
<1>7. QED
  BY <1>5, <1>6

(* Texts have room for the letters of their code page.                       *)
LEMMA TextLetters ==
    ASSUME NEW type, Kind(type) = "text"
    PROVE  Room(type).parts = Letters(type)
<1>1. type.base \in Strings
  BY DEF Kind
<1>2. QED
  BY <1>1 DEF Room, Strings, Unicode, Numbers, Moments, Bytes, Decimals, Fractional

-----------------------------------------------------------------------------
(* What the rules of `column_change_may_lose_data' and of the loss query are *)
(* worth.                                                                    *)

Rounds(old, new) == old.base = "datetime" /\ new.base = "datetime2" /\ Digits(new) < 3

(* A change the code calls safe leaves as much room as there was, but for    *)
(* the length of binaries, roundings of a datetime, and code pages.          *)
LEMMA SafeKeepsRoom ==
    ASSUME NEW old \in Types, NEW new \in Types, Kind(old) = Kind(new),
           ~MayLoseData(old, new)
    PROVE  /\ Kind(old) # "bytes" => Room(old).size <= Room(new).size
           /\ ~Rounds(old, new) => Room(old).detail <= Room(new).detail
           /\ Kind(old) # "text" => Room(old).parts \subseteq Room(new).parts
<1>0. Bases = Strings \cup Numbers \cup Moments \cup Bytes \cup Others
  <2>1. \A b : b \in (UNION Families) <=> \E f \in Families : b \in f
    OBVIOUS
  <2>2. \A f : f \in Families <=> f = Strings \/ f = Numbers \/ f = Moments \/ f = Bytes
    BY DEF Families
  <2>3. \A b : b \in (UNION Families) <=> b \in Strings \/ b \in Numbers \/ b \in Moments \/ b \in Bytes
    BY <2>1, <2>2, Zenon
  <2>4. (UNION Families) = Strings \cup Numbers \cup Moments \cup Bytes
    BY <2>3
  <2>5. QED
    BY <2>4 DEF Bases
<1> USE DEF Strings, Unicode, Numbers, Moments, Bytes, Decimals, Fractional
<1>1. /\ old.base \in Bases /\ new.base \in Bases
      /\ old.length \in 0..Longest \/ old.length = Unset \/ old.length = Max
      /\ new.length \in 0..Longest \/ new.length = Unset \/ new.length = Max
      /\ old.precision \in Nat \/ old.precision = Unset
      /\ old.scale \in Nat \/ old.scale = Unset
      /\ old.digits \in Nat \/ old.digits = Unset
      /\ new.precision \in Nat \/ new.precision = Unset
      /\ new.scale \in Nat \/ new.scale = Unset
      /\ new.digits \in Nat \/ new.digits = Unset
  BY SMT DEF Types
<1>2. CASE old.base \in Strings
  <2>1. new.base \in Strings
    BY <1>1, <1>2 DEF Kind
  <2>2. ~Shorter(old, new)
    BY <1>2, <2>1 DEF MayLoseData
  <2>3. TextRoom(old) <= TextRoom(new)
    <3> Longest \in Nat /\ Longest <= Endless /\ Unset \in Int /\ Max \in Int /\ Unset # Max
        /\ \A n \in 0..Longest : n # Unset /\ n # Max
      BY DEF Longest, Endless, Unset, Max
    <3>1. CASE new.length = Max
      BY <1>1, <3>1 DEF TextRoom, Endless
    <3>2. CASE new.length # Max
      <4>1. /\ old.length \in 0..Longest /\ new.length \in 0..Longest
            /\ old.length <= new.length
        BY <1>1, <2>2, <3>2 DEF Shorter
      <4>2. QED
        BY <4>1 DEF TextRoom
    <3>3. QED
      BY <3>1, <3>2
  <2>4. Room(old).size = TextRoom(old) /\ Room(new).size = TextRoom(new)
        /\ Room(old).detail = 0 /\ Room(new).detail = 0
    BY <1>2, <2>1 DEF Room
  <2>5. QED
    BY <1>2, <2>3, <2>4 DEF Kind
<1>3. CASE old.base \in Numbers
  <2>1. new.base \in Numbers
    BY <1>1, <1>3 DEF Kind
  <2>2. NumberRoom(old) <= NumberRoom(new) /\ NumberDetail(old) <= NumberDetail(new)
    <3>1. CASE old.base = new.base /\ old.base \in Decimals
      <4>1. /\ Scale(old) \in Nat /\ Scale(new) \in Nat /\ Scale(old) <= Scale(new)
            /\ Precision(old) \in Nat /\ Precision(new) \in Nat
            /\ Precision(old) - Scale(old) <= Precision(new) - Scale(new)
        <5>1. /\ Scale(old) \in Nat /\ Scale(new) \in Nat
              /\ Precision(old) \in Nat /\ Precision(new) \in Nat
          BY <1>1 DEF Scale, Precision, Unset
        <5>2. ~LosesInFamily(old, new)
          BY <3>1 DEF MayLoseData
        <5>3. QED
          BY <3>1, <5>1, <5>2 DEF LosesInFamily
      <4>2. QED
        BY <3>1, <4>1 DEF NumberRoom, NumberDetail
    <3>2. CASE old.base = new.base /\ old.base \notin Decimals
      BY <1>3, <3>2 DEF NumberRoom, NumberDetail, Endless
    <3>3. CASE old.base # new.base
      <4>1. <<old.base, new.base>> \in SafeWidenings
        BY <1>3, <2>1, <3>3 DEF MayLoseData
      <4>2. \/ old.base = "tinyint" /\ new.base \in {"smallint", "int", "bigint"}
            \/ old.base = "smallint" /\ new.base \in {"int", "bigint"}
            \/ old.base = "int" /\ new.base = "bigint"
            \/ old.base = "smallmoney" /\ new.base = "money"
            \/ old.base = "real" /\ new.base = "float"
        BY <1>3, <4>1 DEF SafeWidenings
      <4>3. QED
        BY <4>2 DEF NumberRoom, NumberDetail, Endless
    <3>4. QED
      BY <3>1, <3>2, <3>3
  <2>3. /\ Room(old) = [size |-> NumberRoom(old), detail |-> NumberDetail(old), parts |-> {}]
        /\ Room(new) = [size |-> NumberRoom(new), detail |-> NumberDetail(new), parts |-> {}]
    BY <1>3, <2>1 DEF Room
  <2>4. QED
    BY <2>2, <2>3
<1>4. CASE old.base \in Moments
  <2>1. new.base \in Moments
    BY <1>1, <1>4 DEF Kind
  <2>2. /\ MomentRoom(old) <= MomentRoom(new)
        /\ ~Rounds(old, new) => MomentDetail(old) <= MomentDetail(new)
        /\ MomentParts(old) \subseteq MomentParts(new)
    <3>1. Digits(old) \in Nat /\ Digits(new) \in Nat
      BY <1>1 DEF Digits, Unset
    <3>2. CASE old.base = new.base /\ old.base \in Fractional
      <4>1. Digits(old) <= Digits(new)
        <5>1. ~LosesInFamily(old, new)
          BY <3>2 DEF MayLoseData
        <5>2. QED
          BY <3>1, <3>2, <5>1 DEF LosesInFamily
      <4>2. QED
        BY <3>1, <3>2, <4>1 DEF MomentRoom, MomentDetail, MomentParts
    <3>3. CASE old.base = new.base /\ old.base \notin Fractional
      BY <1>4, <3>3 DEF MomentRoom, MomentDetail, MomentParts
    <3>4. CASE old.base # new.base
      <4>1. <<old.base, new.base>> \in SafeWidenings
        BY <1>4, <2>1, <3>4 DEF MayLoseData
      <4>2. \/ old.base = "smalldatetime" /\ new.base = "datetime"
            \/ old.base \in {"date", "datetime"} /\ new.base = "datetime2"
        BY <1>4, <4>1 DEF SafeWidenings
      <4>3. QED
        BY <3>1, <4>2 DEF MomentRoom, MomentDetail, MomentParts, Rounds
    <3>5. QED
      BY <3>2, <3>3, <3>4
  <2>3. /\ Room(old) = [size |-> MomentRoom(old), detail |-> MomentDetail(old), parts |-> MomentParts(old)]
        /\ Room(new) = [size |-> MomentRoom(new), detail |-> MomentDetail(new), parts |-> MomentParts(new)]
    BY <1>4, <2>1 DEF Room
  <2>4. QED
    BY <2>2, <2>3
<1>5. CASE old.base \in Bytes \cup Others
  <2>1. new.base \in Bytes \cup Others
    BY <1>0, <1>1, <1>5 DEF Kind, Others
  <2>2. Room(old).detail = 0 /\ Room(new).detail = 0 /\ Room(old).parts = {}
    BY <1>5, <2>1 DEF Room, Others
  <2>3. Kind(old) # "bytes" => Room(old).size = Endless /\ Room(new).size = Endless
    BY <1>5, <2>1 DEF Room, Others, Kind
  <2>4. QED
    BY <2>2, <2>3 DEF Endless
<1>6. QED
  <2>1. old.base \in Strings \cup Numbers \cup Moments \cup Bytes \cup Others
    BY <1>0, <1>1
  <2>2. QED
    BY <2>1, <1>2, <1>3, <1>4, <1>5

(* A value that comes back as it was fitted in between.                      *)
LEMMA RoundTripFits ==
    ASSUME NEW old \in Types, NEW new \in Types, Kind(old) = Kind(new),
           NEW v, IsValue(v), Fits(v, old), ~Lost(v, old, new)
    PROVE  Fits(v, Queried(old, new))
<1> DEFINE mid == Queried(old, new)
<1>1. mid \in Types /\ Kind(mid) = Kind(new)
  BY QueriedRoom
<1>2. Room(old).size \in Int /\ Room(old).detail \in Nat
      /\ Room(mid).size \in Int /\ Room(mid).detail \in Nat
  BY <1>1, RoomIsMeasured
<1>3. PICK w : w \in TryConvert(v, mid) /\ TryConvert(w, old) = {v}
  <2>1. TryConvert(v, mid) # {}
        /\ ~((Kind(old) # "text" \/ Kind(new) = "text")
               /\ \A w \in TryConvert(v, mid) : TryConvert(w, old) # {v})
    BY DEF Lost
  <2>2. QED
    BY <2>1
<1> HIDE DEF mid
<1>4. w = Squeezed(v, mid)
  BY <1>1, <1>3 DEF TryConvert, Converted, Into, Fits
<1>5. v = Squeezed(w, old)
  <2>1. w.kind = Kind(old)
    BY <1>4 DEF Squeezed, Fits
  <2>2. Into(w, old, FALSE) = {v}
    BY <1>3, <2>1 DEF TryConvert, Converted
  <2>3. QED
    BY <2>2 DEF Into
<1>6. /\ v.size = Least(Least(v.size, Room(mid).size), Room(old).size)
      /\ v.detail = Least(Least(v.detail, Room(mid).detail), Room(old).detail)
      /\ v.parts = (v.parts \cap Room(mid).parts) \cap Room(old).parts
  <2>1. /\ w.size = Least(v.size, Room(mid).size)
        /\ w.detail = Least(v.detail, Room(mid).detail)
        /\ w.parts = v.parts \cap Room(mid).parts
    BY <1>4 DEF Squeezed
  <2>2. /\ v.size = Least(w.size, Room(old).size)
        /\ v.detail = Least(w.detail, Room(old).detail)
        /\ v.parts = w.parts \cap Room(old).parts
    BY <1>5 DEF Squeezed
  <2>3. QED
    BY <2>1, <2>2
<1>7. v.size <= Room(mid).size /\ v.detail <= Room(mid).detail
  BY <1>2, <1>6 DEF Least, Fits, IsValue, IsMeasured
<1>8. Fits(v, mid)
  BY <1>1, <1>6, <1>7 DEF Fits
<1>9. QED
  BY <1>8 DEF mid

(* So it fits the target, if what its code page and the queried one share is *)
(* in the target's.                                                          *)
LEMMA ReturnedFits ==
    ASSUME NEW old \in Types, NEW new \in Types, Kind(old) = Kind(new),
           NEW v, IsValue(v), Fits(v, old), ~Lost(v, old, new),
           Kind(old) = "text" => Letters(old) \cap Letters(Queried(old, new)) \subseteq Letters(new)
    PROVE  Fits(v, new)
<1> DEFINE mid == Queried(old, new)
<1>1. Fits(v, mid)
  BY RoundTripFits
<1>2. /\ Kind(mid) = Kind(new)
      /\ Room(mid).size = Room(new).size /\ Room(mid).detail = Room(new).detail
      /\ Kind(new) # "text" => Room(mid) = Room(new)
  BY QueriedRoom
<1>3. v.parts \subseteq Room(new).parts
  <2>1. CASE Kind(new) = "text"
    <3>1. Room(old).parts = Letters(old) /\ Room(mid).parts = Letters(mid)
          /\ Room(new).parts = Letters(new)
      BY <1>2, <2>1, TextLetters
    <3>2. v.parts \subseteq Letters(old) /\ v.parts \subseteq Letters(mid)
      BY <1>1, <3>1 DEF Fits
    <3>3. QED
      BY <2>1, <3>1, <3>2
  <2>2. CASE Kind(new) # "text"
    BY <1>1, <1>2, <2>2 DEF Fits
  <2>3. QED
    BY <2>1, <2>2
<1>4. QED
  BY <1>1, <1>2, <1>3 DEF Fits

LEMMA KindsDiffer ==
    ASSUME NEW old \in Types, NEW new \in Types, Kind(old) # Kind(new)
    PROVE  MayLoseData(old, new)
<1>1. old.base # new.base
  BY DEF Kind
<1>2. ~(old.base \in Strings /\ new.base \in Strings)
  BY DEF Kind, Strings, Numbers, Moments, Bytes, Decimals, Fractional
<1>3. <<old.base, new.base>> \notin SafeWidenings
  BY DEF Kind, SafeWidenings, Strings, Numbers, Moments, Bytes, Decimals, Fractional
<1>4. QED
  BY <1>1, <1>2, <1>3 DEF MayLoseData

LEMMA SameKindIsCheckable ==
    ASSUME NEW old \in Types, NEW new \in Types, Kind(old) = Kind(new),
           ~LossIsCheckable(old, new)
    PROVE  /\ Room(old).detail = 0 /\ Room(new).detail = 0 /\ Room(old).parts = {}
           /\ new.base # "bit"
<1>0. /\ Strings \in Families /\ Numbers \in Families /\ Moments \in Families /\ Bytes \in Families
  BY DEF Families
<1> USE DEF Strings, Numbers, Moments, Bytes, Decimals, Fractional, Others
<1>1. CASE old.base \in Strings /\ new.base \in Strings
  BY <1>0, <1>1 DEF LossIsCheckable
<1>2. CASE old.base \in Numbers /\ new.base \in Numbers
  BY <1>0, <1>2 DEF LossIsCheckable
<1>3. CASE old.base \in Moments /\ new.base \in Moments
  BY <1>0, <1>3 DEF LossIsCheckable
<1>4. CASE old.base \notin Strings \cup Numbers \cup Moments /\ new.base \notin Strings \cup Numbers \cup Moments
  BY <1>4 DEF Room
<1>5. QED
  BY <1>1, <1>2, <1>3, <1>4 DEF Kind

(* A value that is stored after the checks keeps what it was.                *)
LEMMA StoredSurvives ==
    ASSUME NEW old \in Types, NEW new \in Types,
           NEW v, IsValue(v), Fits(v, old), NEW w \in Stored(v, new),
           ~Rounds(old, new), Kind(old) = "text" => Kind(new) = "text",
           Kind(old) = "text" => Letters(old) \cap Letters(Queried(old, new)) \subseteq Letters(new),
           MayLoseData(old, new) /\ LossIsCheckable(old, new) => ~Lost(v, old, new)
    PROVE  Survives(v, w)
<1>1. CASE Kind(old) # Kind(new)
  <2>1. v.kind # "text" /\ v.kind # Kind(new)
    BY <1>1 DEF Fits
  <2>2. Kind(new) = "text" /\ w = Spelling(v)
    BY <2>1 DEF Stored, Converted
  <2>3. QED
    BY <2>1, <2>2 DEF Survives, Spelling
<1>2. CASE Kind(old) = Kind(new) /\ Fits(v, new)
  <2>1. Converted(v, new, TRUE) = {v}
    BY <1>2, FittingStays
  <2>2. QED
    BY <2>1 DEF Stored, Survives
<1>3. CASE Kind(old) = Kind(new) /\ ~Fits(v, new)
  <2>1. /\ Room(old).size \in Int /\ Room(old).detail \in Nat
        /\ Room(new).size \in Int /\ Room(new).detail \in Nat
        /\ v.size \in Nat /\ v.detail \in Nat
    BY RoomIsMeasured DEF IsValue, IsMeasured
  <2>2. w \in Into(v, new, TRUE)
    BY <1>3 DEF Stored, Converted, Fits
  <2>3. v.size <= Room(new).size \/ new.base = "bit"
    BY <2>2 DEF Into, Cuts
  <2>4. ~(MayLoseData(old, new) /\ LossIsCheckable(old, new))
    BY <1>3, ReturnedFits
  <2>5. CASE MayLoseData(old, new)
    <3>1. /\ Room(old).detail = 0 /\ Room(new).detail = 0 /\ Room(old).parts = {}
          /\ new.base # "bit"
      BY <1>3, <2>4, <2>5, SameKindIsCheckable
    <3>2. Fits(v, new)
      BY <1>3, <2>1, <2>3, <3>1 DEF Fits
    <3>3. QED
      BY <1>3, <3>2
  <2>6. CASE ~MayLoseData(old, new)
    <3>1. /\ Kind(old) # "bytes" => Room(old).size <= Room(new).size
          /\ Room(old).detail <= Room(new).detail
          /\ Kind(old) # "text" => Room(old).parts \subseteq Room(new).parts
      BY <1>3, <2>6, SafeKeepsRoom
    <3>2. v.size <= Room(new).size
      <4>1. new.base = "bit" => Kind(new) = "number"
        BY DEF Kind, Strings, Numbers, Moments, Bytes, Decimals, Fractional
      <4>2. QED
        BY <1>3, <2>1, <2>3, <3>1, <4>1 DEF Fits
    <3>3. Room(old).parts \subseteq Room(new).parts
      <4>1. CASE Kind(old) = "text"
        <5>1. old.base \in Strings /\ new.base \in Strings
          BY <1>3, <4>1 DEF Kind
        <5>2. Room(old).parts = Letters(old) /\ Room(new).parts = Letters(new)
          BY <1>3, <4>1, TextLetters
        <5>3. Letters(old) \subseteq Letters(Queried(old, new)) \/ Letters(new) = Scripts
          <6>1. old.base \in Unicode => new.base \in Unicode
            BY <2>6, <5>1 DEF MayLoseData
          <6>2. CASE new.base \in Unicode
            BY <6>2 DEF Letters
          <6>3. CASE new.base \notin Unicode
            <7>1. /\ Queried(old, new).base = new.base
                  /\ Queried(old, new).page = old.page
              BY <4>1 DEF Queried, Types
            <7>2. QED
              BY <6>1, <6>3, <7>1 DEF Letters
          <6>4. QED
            BY <6>2, <6>3
        <5>4. Letters(old) \subseteq Scripts
          BY DEF Letters, Scripts
        <5>5. QED
          BY <4>1, <5>2, <5>3, <5>4
      <4>2. QED
        BY <3>1, <4>1
    <3>4. Fits(v, new)
      <4>1. v.kind = Kind(old) /\ v.detail <= Room(old).detail /\ v.parts \subseteq Room(old).parts
        BY DEF Fits
      <4>2. v.detail <= Room(new).detail
        BY <2>1, <3>1, <4>1
      <4>3. QED
        BY <1>3, <3>2, <3>3, <4>1, <4>2 DEF Fits
    <3>5. QED
      BY <1>3, <3>4
  <2>7. QED
    BY <2>5, <2>6
<1>4. QED
  BY <1>1, <1>2, <1>3

(* A value that passed the checks is stored.                                 *)
LEMMA CheckedIsStored ==
    ASSUME NEW old \in Types, NEW new \in Types, NEW v, IsValue(v), Fits(v, old),
           ~(Kind(old) \in {"bytes", "text"} /\ Kind(new) = "bytes"),
           MayLoseData(old, new) => LossIsCheckable(old, new) /\ ~Lost(v, old, new)
    PROVE  Stored(v, new) # {}
<1>1. CASE Kind(old) = Kind(new) /\ MayLoseData(old, new)
  <2>1. Fits(v, Queried(old, new))
    BY <1>1, RoundTripFits
  <2>2. v.size <= Room(new).size
    BY <2>1, QueriedRoom DEF Fits
  <2>3. Stored(v, new) = Into(v, new, TRUE)
    BY <1>1 DEF Stored, Converted, Fits
  <2>4. QED
    BY <2>2, <2>3 DEF Into
<1>2. CASE Kind(old) = Kind(new) /\ ~MayLoseData(old, new)
  <2>1. Room(old).size <= Room(new).size
    BY <1>2, SafeKeepsRoom
  <2>2. Room(old).size \in Int /\ Room(new).size \in Int
    BY RoomIsMeasured
  <2>3. v.size <= Room(new).size
    BY <2>1, <2>2 DEF Fits, IsValue, IsMeasured
  <2>4. Stored(v, new) = Into(v, new, TRUE)
    BY <1>2 DEF Stored, Converted, Fits
  <2>5. QED
    BY <2>3, <2>4 DEF Into
<1>3. CASE Kind(old) # Kind(new)
  <2>1. ~Lost(v, old, new)
    BY <1>3, KindsDiffer
  <2>2. TryConvert(v, Queried(old, new)) # {}
    BY <2>1 DEF Lost
  <2> DEFINE mid == Queried(old, new)
  <2>8. /\ Kind(mid) = Kind(new) /\ Room(mid).size = Room(new).size
        /\ \A storing \in BOOLEAN : Cuts(mid, storing) = Cuts(new, storing)
    BY QueriedRoom
  <2>3. v.kind = Kind(old)
    BY DEF Fits
  <2>4. CASE Kind(new) = "text"
    BY <1>3, <2>2, <2>3, <2>4, <2>8 DEF TryConvert, Stored, Converted
  <2>5. CASE Kind(old) = "text"
    <3>1. Kind(new) \notin {"text", "bytes"}
      BY <1>3, <2>5
    <3>2. PICK u \in v.spells : u.kind = Kind(new) /\ Into(u, mid, FALSE) # {}
      BY <2>2, <2>3, <2>5, <2>8, <3>1 DEF TryConvert, Converted
    <3>3. new.base \notin Strings \cup Bytes
      BY <3>1 DEF Kind, Strings, Bytes, Numbers, Moments, Decimals, Fractional
    <3>4. Into(u, new, TRUE) # {}
      BY <2>8, <3>2, <3>3 DEF Into, Cuts
    <3>5. Stored(v, new) =
            UNION {Into(x, new, TRUE) : x \in {y \in v.spells : y.kind = Kind(new)}}
      BY <2>3, <2>5, <3>1 DEF Stored, Converted
    <3>6. QED
      BY <3>2, <3>4, <3>5
  <2>6. CASE Kind(old) # "text" /\ Kind(new) # "text"
    BY <1>3, <2>2, <2>3, <2>6, <2>8 DEF TryConvert, Converted
  <2>7. QED
    BY <2>4, <2>5, <2>6
<1>4. QED
  BY <1>1, <1>2, <1>3

(* What a text becomes is itself, its bytes or what it spells, squeezed.     *)
LEMMA TextBecomes ==
    ASSUME NEW type \in Types, NEW v, IsValue(v), v.kind = "text", NEW w \in TryConvert(v, type)
    PROVE  w \in {Squeezed(u, type) : u \in {v, AsBytes(v)} \cup v.spells}
<1>1. \A u : w \in Into(u, type, FALSE) => w = Squeezed(u, type)
  BY DEF Into
<1>2. CASE Kind(type) = "text"
  BY <1>1, <1>2 DEF TryConvert, Converted
<1>3. CASE Kind(type) = "bytes"
  BY <1>1, <1>3 DEF TryConvert, Converted
<1>4. CASE Kind(type) \notin {"text", "bytes"}
  <2>1. \E u \in v.spells : w \in Into(u, type, FALSE)
    BY <1>4 DEF TryConvert, Converted
  <2>2. QED
    BY <1>1, <2>1
<1>5. QED
  BY <1>2, <1>3, <1>4

LEMMA NullIsNoValue == ~IsValue(Null)
<1>1. DOMAIN Null = {"kind"}
  BY DEF Null
<1>2. IsValue(Null) => "size" \in DOMAIN Null
  BY DEF IsValue, IsMeasured
<1>3. QED
  BY <1>1, <1>2

-----------------------------------------------------------------------------
(* The step.                                                                 *)

Measured(values) == \A r \in DOMAIN values : values[r] # Null => IsValue(values[r])

(* What phase 1 established of the rows the script found.                    *)
Checked ==
    ChecksLoss /\ ~change.accept =>
        \A r \in DOMAIN start.rows :
            start.rows[r] # Null => ~Lost(start.rows[r], observed.type, target.type)

FilledRow(r) ==
    IF start.rows[r] # Null THEN rows[r] = start.rows[r]
    ELSE IF FillsNulls THEN rows[r] \in FillStored ELSE rows[r] = Null

IInv ==
    /\ change \in Changes /\ stage \in Stages
    /\ start.column \in {observed, target} \cup Drifted
    /\ column \in {observed, target} \cup Drifted
    /\ DOMAIN rows = DOMAIN start.rows
    /\ Measured(start.rows) /\ Measured(rows)
    /\ Holds(start.column, start.rows) /\ Holds(column, rows)
    /\ stage \in {"check", "fill"} => rows = start.rows /\ column = start.column
    /\ stage \in {"fill", "alter"} => column = observed /\ start.column = observed /\ Checked
    /\ stage = "alter" => \A r \in DOMAIN rows : FilledRow(r)
    /\ OnlyAcceptedLoss /\ NothingInvented

LEMMA Definitions ==
    ASSUME change \in Changes
    PROVE  /\ Definition(observed) /\ observed.type \in Types
           /\ Definition(target) /\ target.type \in Types
<1>1. Definition(observed) /\ Definition(target)
  BY ColumnAssumption DEF ColumnAssumption, observed, target
<1>2. QED
  BY <1>1 DEF Definition

LEMMA FillIsValue ==
    ASSUME change \in Changes
    PROVE  \A v \in Fill : IsValue(v)
<1>1. Definition(target) /\ target.type \in Types
  BY Definitions
<1>2. CASE change.fill = {}
  <2>1. Fill = target.dflt
    BY <1>2 DEF Fill
  <2>2. QED
    BY <1>1, <2>1 DEF Definition
<1>3. CASE change.fill # {}
  <2> SUFFICES ASSUME NEW v \in Fill PROVE IsValue(v)
    OBVIOUS
  <2>1. PICK u \in change.fill : v \in Converted(u, Named(target.type), FALSE)
    BY <1>3 DEF Fill, TryConvert
  <2>2. IsValue(u)
    BY ColumnAssumption DEF ColumnAssumption
  <2>3. Named(target.type) \in Types
    BY <1>1, QueriedRoom
  <2>4. QED
    BY <2>1, <2>2, <2>3, ConvertedFits
<1>4. QED
  BY <1>2, <1>3

LEMMA FillStoredIsValue ==
    ASSUME change \in Changes
    PROVE  \A v \in FillStored : IsValue(v) /\ Fits(v, observed.type)
<1> SUFFICES ASSUME NEW v \in FillStored PROVE IsValue(v) /\ Fits(v, observed.type)
  OBVIOUS
<1>1. PICK u \in Fill : v \in Converted(u, observed.type, TRUE)
  BY DEF FillStored, Stored
<1>2. IsValue(u)
  BY FillIsValue
<1>3. observed.type \in Types
  BY Definitions
<1>4. QED
  BY <1>1, <1>2, <1>3, ConvertedFits

(* A fill value that passes both types unchanged is what the user gave.      *)
LEMMA FillPasses ==
    ASSUME change \in Changes, FillPassesUnchanged, NEW w \in FillStored
    PROVE  /\ w \in Fill /\ Fits(w, target.type) /\ Stored(w, target.type) = {w}
           /\ IF change.fill = {} THEN w \in target.dflt
              ELSE \E v \in change.fill :
                     w \in {Squeezed(u, Named(target.type)) : u \in {v, AsBytes(v)} \cup v.spells}
<1>1. PICK f \in Fill : w \in Converted(f, observed.type, TRUE)
  BY DEF FillStored, Stored
<1>2. /\ IsValue(f) /\ Fits(f, observed.type) /\ Fits(f, target.type)
      /\ observed.type \in Types /\ target.type \in Types
  BY FillIsValue, Definitions DEF FillPassesUnchanged
<1>3. w = f
  <2>1. Converted(f, observed.type, TRUE) = {f}
    BY <1>2, FittingStays
  <2>2. QED
    BY <1>1, <2>1
<1>4. Stored(w, target.type) = {w}
  BY <1>2, <1>3, FittingStays DEF Stored
<1>5. CASE change.fill = {}
  BY <1>2, <1>3, <1>4, <1>5 DEF Fill
<1>6. CASE change.fill # {}
  <2>1. PICK v \in change.fill : f \in TryConvert(v, Named(target.type))
    BY <1>6 DEF Fill
  <2>2. IsValue(v) /\ v.kind = "text"
    BY ColumnAssumption DEF ColumnAssumption
  <2>3. f \in {Squeezed(u, Named(target.type)) : u \in {v, AsBytes(v)} \cup v.spells}
    <3>1. Named(target.type) \in Types
      BY <1>2, QueriedRoom
    <3>2. QED
      BY <2>1, <2>2, <3>1, TextBecomes
  <2>4. QED
    BY <1>2, <1>3, <1>4, <1>6, <2>3
<1>7. QED
  BY <1>5, <1>6

(* Where the resolution is the same, so is all that was decided of it.       *)
LEMMA SameDecision ==
    ASSUME change' = change
    PROVE  /\ observed' = observed /\ target' = target
           /\ Alters' = Alters /\ FillsNulls' = FillsNulls /\ ChecksLoss' = ChecksLoss
           /\ Fill' = Fill /\ FillStored' = FillStored
           /\ FillPassesUnchanged' = FillPassesUnchanged
           /\ LossGoesUnseen' = LossGoesUnseen
<1>1. observed' = observed /\ target' = target
  BY DEF observed, target
<1>2. Alters' = Alters /\ FillsNulls' = FillsNulls /\ ChecksLoss' = ChecksLoss
  BY <1>1 DEF Alters, Altering, FillsNulls, ChecksLoss
<1>3. Fill' = Fill
  BY <1>1 DEF Fill
<1>4. FillStored' = FillStored
  BY <1>1, <1>3 DEF FillStored
<1>5. FillPassesUnchanged' = FillPassesUnchanged
  BY <1>1, <1>3 DEF FillPassesUnchanged
<1>6. LossGoesUnseen' = LossGoesUnseen
  BY <1>1 DEF LossGoesUnseen, RoundsMilliseconds, ChangesPage, ReadsText
<1>7. QED
  BY <1>1, <1>2, <1>3, <1>4, <1>5, <1>6

LEMMA InitSafe == Init => IInv
<1> SUFFICES ASSUME Init PROVE IInv
  OBVIOUS
<1>1. start.column = column /\ start.rows = rows /\ stage = "check"
  BY DEF Init
<1>2. Measured(rows)
  <2>1. rows \in Contents
    BY DEF Init
  <2>2. \A values \in Contents :
          \A r \in DOMAIN values : values[r] # Null => IsValue(values[r])
    BY ColumnAssumption DEF ColumnAssumption
  <2>3. QED
    BY <2>1, <2>2 DEF Measured
<1>3. OnlyAcceptedLoss /\ NothingInvented
  BY <1>1 DEF OnlyAcceptedLoss, NothingInvented
<1>4. QED
  BY <1>1, <1>2, <1>3 DEF Init, IInv, Stages, observed, target

(* Where a step leaves the rows as they were found, nothing can be lost.     *)
LEMMA AsFoundIsSafe ==
    ASSUME IInv, UNCHANGED <<change, start>>, rows' = start.rows, column' = start.column,
           stage' \in {"done", "aborted"}
    PROVE  IInv'
<1>1. OnlyAcceptedLoss'
  BY DEF OnlyAcceptedLoss, Whole, Survives
<1>2. NothingInvented'
  BY DEF NothingInvented
<1>3. QED
  BY <1>1, <1>2 DEF IInv, Stages, observed, target

LEMMA FillSafe == IInv /\ FillRows => IInv'
<1> SUFFICES ASSUME IInv, FillRows PROVE IInv'
  OBVIOUS
<1>1. /\ change' = change /\ start' = start /\ column' = column /\ stage' = "alter"
      /\ rows = start.rows /\ column = observed /\ start.column = observed /\ Checked
      /\ DOMAIN rows' = DOMAIN rows /\ change \in Changes
  BY DEF FillRows, IInv
<1>2. FillsNulls /\ HasNulls => (CHOOSE v \in FillStored : TRUE) \in FillStored
  BY DEF FillRows
<1>3. \A r \in DOMAIN rows :
        \/ rows'[r] = rows[r] /\ ~(FillsNulls /\ rows[r] = Null)
        \/ FillsNulls /\ rows[r] = Null /\ rows'[r] \in FillStored
  <2> SUFFICES ASSUME NEW r \in DOMAIN rows, FillsNulls, rows[r] = Null
               PROVE  rows'[r] \in FillStored
    BY DEF FillRows
  <2>1. HasNulls
    BY DEF HasNulls
  <2>2. rows'[r] = CHOOSE v \in FillStored : TRUE
    BY DEF FillRows
  <2>3. QED
    BY <1>2, <2>1, <2>2
<1>4. \A r \in DOMAIN rows' : FilledRow(r)'
  <2>1. FillsNulls' = FillsNulls /\ FillStored' = FillStored
    BY <1>1, SameDecision
  <2>2. QED
    BY <1>1, <1>3, <2>1 DEF FilledRow
<1>5. \A r \in DOMAIN rows' :
        rows'[r] = rows[r] \/ (IsValue(rows'[r]) /\ Fits(rows'[r], observed.type))
  BY <1>1, <1>3, FillStoredIsValue
<1>6. Measured(rows')
  BY <1>1, <1>5 DEF Measured, IInv
<1>7. Holds(column', rows')
  <2>1. Holds(observed, rows)
    BY <1>1 DEF IInv
  <2>2. \A r \in DOMAIN rows' : rows'[r] # rows[r] => rows'[r] # Null
    BY <1>5, NullIsNoValue
  <2>3. QED
    BY <1>1, <1>5, <2>1, <2>2 DEF Holds
<1>8. Checked'
  <2>1. observed' = observed /\ target' = target /\ ChecksLoss' = ChecksLoss
    BY <1>1, SameDecision
  <2>2. QED
    BY <1>1, <2>1 DEF Checked
<1>9. OnlyAcceptedLoss' /\ NothingInvented'
  BY <1>1 DEF OnlyAcceptedLoss, NothingInvented
<1>10. observed' = observed /\ target' = target
  BY <1>1, SameDecision
<1>11. QED
  BY <1>1, <1>4, <1>6, <1>7, <1>8, <1>9, <1>10 DEF IInv, Stages

(* ALTER COLUMN: each value is kept, or is what the checks let it become.    *)
LEMMA AlterSafe == IInv /\ AlterColumn => IInv'
<1> SUFFICES ASSUME IInv, AlterColumn PROVE IInv'
  OBVIOUS
<1>1. /\ change' = change /\ start' = start /\ column' = target /\ stage' = "done"
      /\ column = observed /\ start.column = observed /\ Checked
      /\ DOMAIN rows' = DOMAIN rows /\ DOMAIN rows = DOMAIN start.rows
      /\ change \in Changes
      /\ \A r \in DOMAIN rows : FilledRow(r)
      /\ Holds(observed, rows) /\ Holds(observed, start.rows)
      /\ Measured(rows) /\ Measured(start.rows)
  BY DEF AlterColumn, IInv
<1>2. observed.type \in Types /\ target.type \in Types
  BY <1>1, Definitions
<1>3. observed' = observed /\ target' = target
  BY <1>1, SameDecision
<1>4. ~Alters => observed.type = target.type /\ observed.null = target.null
  BY DEF Alters, Altering
<1>5. \A r \in DOMAIN rows :
        \/ rows[r] # Null /\ Alters /\ rows'[r] \in Stored(rows[r], target.type)
        \/ ~(rows[r] # Null /\ Alters) /\ rows'[r] = rows[r]
  <2> SUFFICES ASSUME NEW r \in DOMAIN rows, rows[r] # Null, Alters
               PROVE  rows'[r] \in Stored(rows[r], target.type)
    BY DEF AlterColumn
  <2>1. Stored(rows[r], target.type) # {}
    BY DEF AlterColumn, Unconvertible
  <2>2. rows'[r] = CHOOSE w \in Stored(rows[r], target.type) : TRUE
    BY DEF AlterColumn
  <2>3. QED
    BY <2>1, <2>2
<1>6. \A r \in DOMAIN rows :
        IF rows'[r] = Null THEN target.null
                           ELSE IsValue(rows'[r]) /\ Fits(rows'[r], target.type)
  <2> SUFFICES ASSUME NEW r \in DOMAIN rows
               PROVE  IF rows'[r] = Null THEN target.null
                      ELSE IsValue(rows'[r]) /\ Fits(rows'[r], target.type)
    OBVIOUS
  <2>1. CASE rows[r] # Null /\ Alters
    <3>1. IsValue(rows[r]) /\ rows'[r] \in Converted(rows[r], target.type, TRUE)
      BY <1>1, <1>5, <2>1 DEF Measured, Stored
    <3>2. IsValue(rows'[r]) /\ Fits(rows'[r], target.type)
      BY <1>2, <3>1, ConvertedFits
    <3>3. QED
      BY <3>2, NullIsNoValue
  <2>2. CASE rows[r] = Null /\ Alters
    <3>1. target.null
      BY <2>2 DEF AlterColumn, Unconvertible
    <3>2. QED
      BY <1>5, <2>2, <3>1
  <2>3. CASE ~Alters
    <3>1. rows'[r] = rows[r]
      BY <1>5, <2>3
    <3>2. IF rows[r] = Null THEN observed.null ELSE Fits(rows[r], observed.type)
      BY <1>1 DEF Holds
    <3>3. rows[r] # Null => IsValue(rows[r])
      BY <1>1 DEF Measured
    <3>4. QED
      BY <1>4, <2>3, <3>1, <3>2, <3>3
  <2>4. QED
    BY <2>1, <2>2, <2>3
<1>7. Measured(rows') /\ Holds(target, rows')
  BY <1>1, <1>6 DEF Measured, Holds
<1>8. OnlyAcceptedLoss'
  <2> SUFFICES ASSUME ~change.accept, ~LossGoesUnseen, NEW r \in DOMAIN rows,
                      start.rows[r] # Null
               PROVE  Survives(start.rows[r], rows'[r])
    <3>1. LossGoesUnseen' = LossGoesUnseen
      BY <1>1, SameDecision
    <3>2. QED
      BY <1>1, <3>1 DEF OnlyAcceptedLoss, Whole
  <2>1. rows[r] = start.rows[r] /\ IsValue(rows[r]) /\ Fits(rows[r], observed.type)
    BY <1>1 DEF FilledRow, Measured, Holds
  <2>2. CASE ~Alters
    BY <1>5, <2>1, <2>2 DEF Survives
  <2>3. CASE Alters
    <3>1. rows'[r] \in Stored(rows[r], target.type)
      BY <1>5, <2>1, <2>3
    <3>2. /\ ~Rounds(observed.type, target.type)
          /\ Kind(observed.type) = "text" => Kind(target.type) = "text"
          /\ Kind(observed.type) = "text" =>
               Letters(observed.type) \cap Letters(Queried(observed.type, target.type))
                 \subseteq Letters(target.type)
      BY DEF LossGoesUnseen, RoundsMilliseconds, ChangesPage, ReadsText, Rounds
    <3>3. MayLoseData(observed.type, target.type) /\ LossIsCheckable(observed.type, target.type)
            => ~Lost(rows[r], observed.type, target.type)
      BY <1>1, <2>1, <2>3 DEF Checked, ChecksLoss
    <3>4. QED
      BY <1>2, <2>1, <3>1, <3>2, <3>3, StoredSurvives
  <2>4. QED
    BY <2>2, <2>3
<1>9. NothingInvented'
  <2> SUFFICES ASSUME NEW r \in DOMAIN rows, start.rows[r] = Null, rows'[r] # Null
               PROVE  /\ observed.null /\ ~target.null
                      /\ FillPassesUnchanged =>
                           IF change.fill = {} THEN rows'[r] \in target.dflt
                           ELSE \E v \in change.fill :
                                  rows'[r] \in {Squeezed(u, Named(target.type)) :
                                                  u \in {v, AsBytes(v)} \cup v.spells}
    <3>1. FillPassesUnchanged' = FillPassesUnchanged
      BY <1>1, SameDecision
    <3>2. QED
      BY <1>1, <1>3, <3>1 DEF NothingInvented
  <2>1. FillsNulls /\ rows[r] \in FillStored
    BY <1>1, <1>5 DEF FilledRow
  <2>2. Alters /\ observed.null /\ ~target.null
    BY <2>1 DEF FillsNulls
  <2>3. ASSUME FillPassesUnchanged
        PROVE  IF change.fill = {} THEN rows'[r] \in target.dflt
               ELSE \E v \in change.fill :
                      rows'[r] \in {Squeezed(u, Named(target.type)) :
                                      u \in {v, AsBytes(v)} \cup v.spells}
    <3>1. rows[r] # Null
      BY <1>1, <2>1, FillStoredIsValue, NullIsNoValue
    <3>2. rows'[r] = rows[r]
      <4>1. Stored(rows[r], target.type) = {rows[r]}
        BY <1>1, <2>1, <2>3, FillPasses
      <4>2. QED
        BY <1>5, <2>2, <3>1, <4>1
    <3>3. QED
      BY <1>1, <2>1, <2>3, <3>2, FillPasses
  <2>4. QED
    BY <2>2, <2>3
<1>10. QED
  BY <1>1, <1>3, <1>7, <1>8, <1>9 DEF IInv, Stages

LEMMA StepSafe == IInv /\ [Next]_vars => IInv'
<1> SUFFICES ASSUME IInv, [Next]_vars PROVE IInv'
  OBVIOUS
<1>1. CASE Skip
  BY <1>1, AsFoundIsSafe DEF Skip, IInv
<1>2. CASE Refuse
  BY <1>2, AsFoundIsSafe DEF Refuse, Abort
<1>3. CASE Pass
  <2>1. /\ UNCHANGED <<change, column, rows, start>> /\ stage = "check" /\ stage' = "fill"
        /\ ~Refused /\ change \in Changes
    BY <1>3 DEF Pass, IInv
  <2>2. column = observed /\ start.column = observed /\ rows = start.rows
    BY <2>1 DEF Refused, IInv
  <2>3. Checked
    BY <2>1, <2>2 DEF Refused, LostRows, Checked
  <2>4. Checked'
    <3>1. observed' = observed /\ target' = target /\ ChecksLoss' = ChecksLoss
      BY <2>1, SameDecision
    <3>2. QED
      BY <2>1, <2>3, <3>1 DEF Checked
  <2>5. OnlyAcceptedLoss' /\ NothingInvented'
    BY <2>1 DEF OnlyAcceptedLoss, NothingInvented
  <2>6. observed' = observed /\ target' = target
    BY <2>1, SameDecision
  <2>7. QED
    BY <2>1, <2>2, <2>4, <2>5, <2>6 DEF IInv, Stages
<1>4. CASE FillRows
  BY <1>4, FillSafe
<1>5. CASE FillFails
  BY <1>5, AsFoundIsSafe DEF FillFails, Abort
<1>6. CASE AlterColumn
  BY <1>6, AlterSafe
<1>7. CASE AlterFails
  BY <1>7, AsFoundIsSafe DEF AlterFails, Abort
<1>8. CASE UNCHANGED vars
  <2>1. UNCHANGED <<change, column, rows, stage, start>>
    BY <1>8 DEF vars
  <2>2. /\ observed' = observed /\ target' = target /\ ChecksLoss' = ChecksLoss
        /\ FillsNulls' = FillsNulls /\ FillStored' = FillStored
        /\ FillPassesUnchanged' = FillPassesUnchanged /\ LossGoesUnseen' = LossGoesUnseen
    BY <2>1, SameDecision
  <2>3. Checked' = Checked /\ \A r \in DOMAIN rows : FilledRow(r)' = FilledRow(r)
    BY <2>1, <2>2 DEF Checked, FilledRow
  <2>4. OnlyAcceptedLoss' = OnlyAcceptedLoss /\ NothingInvented' = NothingInvented
    BY <2>1, <2>2 DEF OnlyAcceptedLoss, NothingInvented, Whole
  <2>5. QED
    BY <2>1, <2>2, <2>3, <2>4 DEF IInv
<1>9. QED
  BY <1>1, <1>2, <1>3, <1>4, <1>5, <1>6, <1>7, <1>8 DEF Next

-----------------------------------------------------------------------------
(* What holds in every state, whatever the types and the rows.               *)

LEMMA Invariance == Spec => []IInv
<1>1. QED
  BY InitSafe, StepSafe, PTL DEF Spec

(* The column is always one of those it may be, and holds only what its      *)
(* definition lets it hold.                                                  *)
THEOREM Typing == Spec => []TypeOK
<1>1. IInv => TypeOK
  BY DEF IInv, TypeOK, observed, target
<1>2. QED
  BY <1>1, Invariance, PTL

(* No value is cut, rounded or replaced that the user did not give up, for   *)
(* every pair of types whose losses `_lost_rows_query' sees.                 *)
THEOREM LossIsAccepted == Spec => []OnlyAcceptedLoss
<1>1. IInv => OnlyAcceptedLoss
  BY DEF IInv
<1>2. QED
  BY <1>1, Invariance, PTL

(* A row without a value only receives the fill value or the default, and    *)
(* only where the column became NOT NULL (`_fill_expression').               *)
THEOREM FillIsTheUsers == Spec => []NothingInvented
<1>1. IInv => NothingInvented
  BY DEF IInv
<1>2. QED
  BY <1>1, Invariance, PTL

(* What phase 1 lets through, phase 2 carries out: no ALTER COLUMN fails on  *)
(* a value, but for the types that the code leaves to the server.            *)
THEOREM ChecksAreEnough == Spec => []ChecksForesee
<1>1. IInv => ChecksForesee
  <2> SUFFICES ASSUME IInv, stage = "alter", ~change.accept, ~LeftToServer, Alters,
                      NEW r \in DOMAIN rows
               PROVE  IF rows[r] = Null THEN target.null ELSE Stored(rows[r], target.type) # {}
    BY DEF ChecksForesee, Unconvertible
  <2>1. /\ change \in Changes /\ Checked /\ FilledRow(r)
        /\ Holds(observed, rows) /\ Measured(rows)
    BY DEF IInv
  <2>2. observed.type \in Types /\ target.type \in Types
    BY <2>1, Definitions
  <2>3. CASE start.rows[r] = Null /\ FillsNulls
    <3>1. rows[r] \in FillStored /\ FillPassesUnchanged
      BY <2>1, <2>3 DEF FilledRow, LeftToServer
    <3>2. rows[r] # Null
      BY <2>1, <3>1, FillStoredIsValue, NullIsNoValue
    <3>3. Stored(rows[r], target.type) = {rows[r]}
      BY <2>1, <3>1, FillPasses
    <3>4. QED
      BY <3>2, <3>3
  <2>4. CASE start.rows[r] = Null /\ ~FillsNulls
    <3>1. rows[r] = Null
      BY <2>1, <2>4 DEF FilledRow
    <3>2. observed.null
      BY <2>1, <3>1 DEF Holds
    <3>3. target.null
      BY <2>4, <3>2 DEF FillsNulls
    <3>4. QED
      BY <3>1, <3>3
  <2>5. CASE start.rows[r] # Null
    <3>1. rows[r] = start.rows[r] /\ IsValue(rows[r]) /\ Fits(rows[r], observed.type)
      BY <2>1, <2>5 DEF FilledRow, Holds, Measured
    <3>2. /\ ~(Kind(observed.type) \in {"bytes", "text"} /\ Kind(target.type) = "bytes")
          /\ MayLoseData(observed.type, target.type)
               => LossIsCheckable(observed.type, target.type)
      BY DEF LeftToServer
    <3>3. MayLoseData(observed.type, target.type)
            => ~Lost(rows[r], observed.type, target.type)
      <4>1. r \in DOMAIN start.rows
        BY DEF IInv
      <4>2. QED
        BY <2>1, <2>5, <3>1, <3>2, <4>1 DEF Checked, ChecksLoss
    <3>4. Stored(rows[r], target.type) # {}
      BY <2>2, <3>1, <3>2, <3>3, CheckedIsStored
    <3>5. QED
      BY <2>5, <3>1, <3>4
  <2>6. QED
    BY <2>3, <2>4, <2>5
<1>2. QED
  BY <1>1, Invariance, PTL
=============================================================================
