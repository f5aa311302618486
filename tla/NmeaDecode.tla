------------------------------ MODULE NmeaDecode ------------------------------
(***************************************************************************)
(* The loop of GPS_run (gps_logger/gps.c): each sentence that              *)
(* gps_get_sentence delivers is split at its commas and, if it is of a     *)
(* known kind, decoded into rec, field after field.                        *)
(*                                                                         *)
(* The split keeps pointers into the sentence, not fields: what is decoded *)
(* runs on over the commas, and past the terminator over what an earlier,  *)
(* longer sentence has left in the array.  So the sentence is an array of  *)
(* characters here, its fields are those of the line received.  Index 0 is *)
(* the character after the header, such as $GPRMC, which gives the kind.   *)
(* Two digits at the end of a sentence that fills the array are looked for  *)
(* behind it.                                                              *)
(*                                                                         *)
(* The specification has names of its own, so that DataProofs can extend   *)
(* this module beside FramAtomic.                                          *)
(***************************************************************************)
EXTENDS Integers, SequencesExt

CONSTANTS
  Lines,         \* the lines received: [kind, fields]
  SentenceSize,  \* sizeof(sentence), less the header
  Behind         \* what may lie behind the array when it is decoded

(* Characters: the digits are themselves. *)
Comma == 10
Dot   == 11
Nul   == 12
A     == 13      \* the A of an active receiver
Other == 14
Char  == 0 .. Other

MaxParams    == 20
HeaderLength == 6

(* The characters of a line: every field follows a comma. *)
Text(l) == FlattenSeq([i \in DOMAIN l.fields |-> <<Comma>> \o l.fields[i]])

(* gps_get_sentence cuts what does not fit. *)
ASSUME LinesAssumption ==
  /\ SentenceSize \in Nat
  /\ \A l \in Lines :
       /\ l \in [kind : {"ignored", "other", "VTG", "RMC"},
                 fields : Seq(Seq(Char \ {Comma, Nul}))]
       /\ Len(Text(l)) < SentenceSize

(* The characters behind the array that are looked at, and the slots of all. *)
BehindSlots == SentenceSize .. SentenceSize + 2
Slots       == 0 .. SentenceSize + 2

ASSUME BehindAssumption == Behind # {} /\ Behind \subseteq [BehindSlots -> Char]

VARIABLES
  sentence,    \* with what lies behind it
  kind,        \* the header of the sentence; "ignored" is not from $GP
  line,        \* history: the line the sentence was received from
  param,       \* with its length, param_count
  rec,
  pc,          \* where the loop is; "undefined" after an overrun of param
  outcome      \* what became of the last sentence

decodeVars == <<sentence, kind, line, param, rec, pc, outcome>>

(* Of the local variable rec nothing is known before it is assigned. *)
Unset == 0 - 1

NoLine == [kind |-> "ignored", fields |-> <<>>]

DecodeInit ==
  /\ sentence = [i \in Slots |-> Nul]
  /\ kind = "ignored"
  /\ line = NoLine
  /\ param = <<>>
  /\ rec = [hr |-> Unset, min |-> Unset, sec |-> Unset,
            d |-> Unset, m |-> Unset, y |-> Unset, kph |-> <<>>,
            lat_left |-> Unset, lat_right |-> Unset,
            lon_left |-> Unset, lon_right |-> Unset]
  /\ pc = "get"
  /\ outcome = "none"

-----------------------------------------------------------------------------
(* C strings *)

IsDigit(c) == c \in 0 .. 9

(* Where the sentence ends. *)
StrEnd == Min({i \in DOMAIN sentence : sentence[i] = Nul})

(* strchr(p, c) # NULL *)
HasChr(p, c) == \E q \in p .. StrEnd - 1 : sentence[q] = c

StrChr(p, c) == Min({q \in p .. StrEnd - 1 : sentence[q] = c})

(* The digits from p on, as strtoul and strtod take them. *)
Digits(p) ==
  LET end == Min({q \in p .. SentenceSize - 1 : ~IsDigit(sentence[q])})
  IN  [i \in 1 .. end - p |-> sentence[p + i - 1]]

Value(ds) ==
  LET v[i \in 0 .. Len(ds)] == IF i = 0 THEN 0 ELSE 10 * v[i - 1] + ds[i]
  IN  v[Len(ds)]

(* strtoul, cut to the width of an int16_t; with no digit at p it is 0. *)
Strtoul(p) == ((Value(Digits(p)) + 32768) % 65536) - 32768

(* strtod, as the numeral it reads. *)
Strtod(p) ==
  LET end == p + Len(Digits(p))
  IN  IF sentence[end] = Dot THEN Digits(p) \o <<Dot>> \o Digits(end + 1)
                             ELSE Digits(p)

-----------------------------------------------------------------------------
(* The loop *)

(* gps_get_sentence: the array keeps what lies behind the new terminator. *)
GetSentence ==
  /\ pc = "get"
  /\ \E l \in Lines, behind \in Behind :
       LET text == Text(l) IN
       /\ line' = l
       /\ kind' = l.kind
       /\ sentence' = [i \in Slots |-> CASE i < Len(text)     -> text[i + 1]
                                         [] i = Len(text)     -> Nul
                                         [] i \in BehindSlots -> behind[i]
                                         [] OTHER             -> sentence[i]]
  /\ pc' = "check"
  /\ UNCHANGED <<param, rec, outcome>>

(* Too short, or not from the GPS. *)
Ignore ==
  /\ pc = "check"
  /\ StrEnd + HeaderLength < 10 \/ kind = "ignored"
  /\ pc' = "get" /\ outcome' = "ignored"
  /\ UNCHANGED <<sentence, kind, line, param, rec>>

Commas == {i \in 0 .. StrEnd - 1 : sentence[i] = Comma}

CommaCount == Cardinality(Commas)

(* The k-th comma has k - 1 before it. *)
CommaAt(k) == CHOOSE i \in Commas : Cardinality({j \in Commas : j < i}) = k - 1

(* Mutant: the pointers are to the commas. *)
PositionsAtComma == [k \in 1 .. CommaCount |-> CommaAt(k)]

(* Where the fields begin. *)
Positions == [k \in 1 .. CommaCount |-> CommaAt(k) + 1]

Known == StrEnd + HeaderLength >= 10 /\ kind # "ignored"

(* gps_decode_parameters *)
DecodeParameters ==
  /\ pc = "check" /\ Known
  /\ CommaCount <= MaxParams
  /\ param' = Positions
  /\ pc' = "decode"
  /\ UNCHANGED <<sentence, kind, line, rec, outcome>>

(* It does not check the number of commas: any variable behind param may be *)
(* overwritten, the main program's own among them.                         *)
OverrunParams ==
  /\ pc = "check" /\ Known
  /\ CommaCount > MaxParams
  /\ pc' = "undefined"
  /\ UNCHANGED <<sentence, kind, line, param, rec, outcome>>

(* param[k] and param_count *)
Param(k)    == param[k + 1]
param_count == Len(param)

(* Mutant: the characters need not be digits. *)
DDUnchecked(p) == 10 * sentence[p] + sentence[p + 1]

(* gps_decode_dd *)
DD(p) == IF IsDigit(sentence[p]) /\ IsDigit(sentence[p + 1])
           THEN 10 * sentence[p] + sentence[p + 1] ELSE 0

(* The end of a round of the loop. *)
Done(o) == /\ pc = "decode"
           /\ pc' = "get" /\ outcome' = o
           /\ UNCHANGED <<sentence, kind, line, param>>

(* A sentence of another kind, or with too few fields. *)
Unused ==
  /\ \/ kind = "other"
     \/ kind = "VTG" /\ param_count < 8
     \/ kind = "RMC" /\ param_count < 11
  /\ Done("unused")
  /\ UNCHANGED rec

VTG ==
  /\ kind = "VTG" /\ param_count >= 8
  /\ rec' = [rec EXCEPT !.kph = Strtod(Param(6))]
  /\ Done("speed")

(* Mutant: the time is decoded after the validation, like the location. *)
DateDecoded ==
  [rec EXCEPT !.d   = DD(Param(8)),
              !.m   = DD(Param(8) + 2),
              !.y   = DD(Param(8) + 4)]

(* What every RMC sentence does to rec before it is validated. *)
DateTimeDecoded ==
  [rec EXCEPT !.hr  = DD(Param(0)),
              !.min = DD(Param(0) + 2),
              !.sec = DD(Param(0) + 4),
              !.d   = DD(Param(8)),
              !.m   = DD(Param(8) + 2),
              !.y   = DD(Param(8) + 4)]

InRange(r) == /\ r.d <= 31 /\ r.m <= 12 /\ r.y \in 14 .. 79
              /\ r.hr <= 23 /\ r.min <= 59 /\ r.sec <= 59

RMC == kind = "RMC" /\ param_count >= 11

BadDateTime ==
  /\ pc = "decode" /\ RMC
  /\ ~InRange(DateTimeDecoded)
  /\ rec' = DateTimeDecoded
  /\ Done("bad date/time")

Locked == sentence[Param(1)] = A

NoLock ==
  /\ pc = "decode" /\ RMC
  /\ InRange(DateTimeDecoded) /\ ~Locked
  /\ rec' = DateTimeDecoded
  /\ Done("no lock")

(* The test on a coordinate: of an empty field it tests the next ones. *)
Coordinate(p) == HasChr(p, Dot) /\ sentence[p + 1] # Comma

BadLocation ==
  /\ pc = "decode" /\ RMC
  /\ InRange(DateTimeDecoded) /\ Locked
  /\ ~(Coordinate(Param(2)) /\ Coordinate(Param(4)))
  /\ rec' = DateTimeDecoded
  /\ Done("bad lat/lon")

LocationDecoded ==
  [DateTimeDecoded EXCEPT
     !.lat_left  = Strtoul(Param(2)),
     !.lat_right = Strtoul(StrChr(Param(2), Dot)),
     !.lon_left  = Strtoul(Param(4)),
     !.lon_right = Strtoul(StrChr(Param(4), Dot))]

Location ==
  /\ pc = "decode" /\ RMC
  /\ InRange(DateTimeDecoded) /\ Locked
  /\ Coordinate(Param(2)) /\ Coordinate(Param(4))
  /\ rec' = LocationDecoded
  /\ Done("fix")

DecodeNext ==
  \/ GetSentence \/ Ignore \/ DecodeParameters \/ OverrunParams
  \/ Unused \/ VTG \/ BadDateTime \/ NoLock \/ BadLocation \/ Location

DecodeSpec == DecodeInit /\ [][DecodeNext]_decodeVars

-----------------------------------------------------------------------------
(* Type invariant: the fields of rec keep to uint8_t decimals and int16_t.  *)
Decimals == Unset .. 99
Int16    == {i \in Int : 0 - 32768 <= i /\ i < 32768}

Record == [hr : Decimals, min : Decimals, sec : Decimals,
           d : Decimals, m : Decimals, y : Decimals, kph : Seq(Char),
           lat_left : Int16, lat_right : Int16,
           lon_left : Int16, lon_right : Int16]

DecodeTypeOK ==
  /\ sentence \in [Slots -> Char]
  /\ line \in Lines \cup {NoLine} /\ kind = line.kind
  /\ param \in Seq(1 .. SentenceSize - 1) /\ Len(param) <= MaxParams
  /\ rec \in Record
  /\ pc \in {"get", "check", "decode", "undefined"}
  /\ outcome \in {"none", "ignored", "unused", "speed", "bad date/time",
                  "no lock", "bad lat/lon", "fix"}

(* Reference: what a line says, field by field. *)
Field(k)    == line.fields[k + 1]
Two(k, i)   == 10 * Field(k)[i] + Field(k)[i + 1]
SixDigits(k) == Len(Field(k)) >= 6 /\ \A i \in 1 .. 6 : IsDigit(Field(k)[i])
DotsIn(f)   == {i \in DOMAIN f : f[i] = Dot}
Decimal(f)  == /\ \E i \in 2 .. Len(f) - 1 : DotsIn(f) = {i}
               /\ \A i \in DOMAIN f : IsDigit(f[i]) \/ f[i] = Dot
Whole(f)    == Value(SubSeq(f, 1, Min(DotsIn(f)) - 1))

(* An RMC line with all the fields that are used, in their formats: of the  *)
(* time 112326.000 six digits count; degrees and minutes are at most 18000.  *)
Complete ==
  /\ line.kind = "RMC" /\ Len(line.fields) >= 11
  /\ SixDigits(0) /\ SixDigits(8) /\ Len(Field(1)) = 1
  /\ Decimal(Field(2)) /\ Whole(Field(2)) <= 18000
  /\ Decimal(Field(4)) /\ Whole(Field(4)) <= 18000

(* A complete RMC line is taken for a fix exactly if its date and time are   *)
(* possible and the receiver was locked, and rec then has its date, time and *)
(* whole degrees, whatever the sentences before it left in the array, in     *)
(* param and in rec, and whatever lies behind the array.                    *)
CompleteLineDecoded ==
  pc = "get" /\ Complete =>
    LET possible == /\ Two(8, 1) <= 31 /\ Two(8, 3) <= 12 /\ Two(8, 5) \in 14 .. 79
                    /\ Two(0, 1) <= 23 /\ Two(0, 3) <= 59 /\ Two(0, 5) <= 59
    IN  /\ outcome = "fix" <=> possible /\ Field(1) = <<A>>
        /\ outcome = "fix" =>
             /\ rec.hr = Two(0, 1) /\ rec.min = Two(0, 3) /\ rec.sec = Two(0, 5)
             /\ rec.d = Two(8, 1) /\ rec.m = Two(8, 3) /\ rec.y = Two(8, 5)
             /\ rec.lat_left = Whole(Field(2)) /\ rec.lon_left = Whole(Field(4))

(* The two digits at a place of the line; 0 if they are not digits. *)
DigitsOfLine(i) ==
  IF IsDigit(Text(line)[i]) /\ IsDigit(Text(line)[i + 1])
    THEN 10 * Text(line)[i] + Text(line)[i + 1] ELSE 0

(* The location changes only with a sentence of a locked receiver, and rec  *)
(* then has a possible date and time, the time of that very sentence and,    *)
(* if its fields are in their formats, its date and its whole degrees too:   *)
(* a new location never stands with an earlier sentence's time or date.      *)
LocationHasTime ==
  [][<<rec.lat_left, rec.lon_left>>' # <<rec.lat_left, rec.lon_left>> =>
       /\ Field(1) # <<>> /\ Head(Field(1)) = A
       /\ InRange(rec')
       /\ rec'.hr  = DigitsOfLine(2)
       /\ rec'.min = DigitsOfLine(4)
       /\ rec'.sec = DigitsOfLine(6)
       /\ SixDigits(8) => /\ rec'.d = Two(8, 1) /\ rec'.m = Two(8, 3)
                          /\ rec'.y = Two(8, 5)
       /\ Decimal(Field(2)) /\ Whole(Field(2)) <= 18000 =>
            rec'.lat_left = Whole(Field(2))
       /\ Decimal(Field(4)) /\ Whole(Field(4)) <= 18000 =>
            rec'.lon_left = Whole(Field(4))]_decodeVars

===============================================================================
