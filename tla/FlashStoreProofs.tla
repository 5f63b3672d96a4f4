-------------------------- MODULE FlashStoreProofs --------------------------
(***************************************************************************)
(* TakeGlobalInfo accepts only one save as a whole, and a clean save leaves*)
(* the settings in the flash, for every layout of type_info_t and every set*)
(* of fields.                                                              *)
(***************************************************************************)
EXTENDS FlashStore, TLAPS

(***************************************************************************)
(* The inductive invariant.  AcceptedIsOneSave needs that the checksum in  *)
(* the page, as far as it is programmed, is that of source.                *)
(* NothingToSaveMeansSaved needs that an undisturbed save has copied every *)
(* field up to the double word it is at.                                   *)
(***************************************************************************)
Stamped ==
    /\ page.crc \in Stamps(source)
    /\ pc \in {"erase", "program"} => crc = Crc(snap)
    /\ pc = "program" => source = snap

Copied ==
    /\ \A f \in Field : WordOf(Offset[f]) < word => page.data[f] = info[f]
    /\ WordOf(SIZE - 2) < word => page.crc[1] = crc[1]
    /\ WordOf(SIZE - 1) < word => page.crc[2] = crc[2]

Undisturbed ==
    clean =>
        /\ pc \in {"erase", "program"} => info = snap /\ last_crc = Crc(snap)
        /\ pc = "program" => Copied
        /\ pc # "off"
        /\ pc = "idle" => /\ page.data = source /\ page.crc = Crc(source)
                          /\ last_crc = Crc(source)

InRecord == pc = "program" => word <= Words(SIZE)

FlashInv == TypeOK /\ Stamped /\ Undisturbed /\ InRecord

-----------------------------------------------------------------------------
(***************************************************************************)
(* flash_write's rounding: every byte of the record is in one of the double*)
(* words it programs, and a record has at least one.                       *)
(***************************************************************************)
LEMMA EveryByteHasAWord ==
    /\ Words(SIZE) \in Nat /\ Words(SIZE) >= 1
    /\ \A o \in 0..(SIZE - 1) : WordOf(o) \in Nat /\ WordOf(o) <= Words(SIZE)
<1>1. SIZE \in Nat /\ SIZE >= 3
  BY LayoutAssumption
<1>2. Words(SIZE) \in Nat /\ Words(SIZE) >= 1
  BY <1>1 DEF Words
<1>3. ASSUME NEW o \in 0..(SIZE - 1)
      PROVE  WordOf(o) \in Nat /\ WordOf(o) <= Words(SIZE)
  BY <1>1, <1>3 DEF Words, WordOf
<1> QED
  BY <1>2, <1>3

(***************************************************************************)
(* A checksum is among its own stamps, and tells real contents apart.      *)
(***************************************************************************)
LEMMA CrcFacts ==
    /\ \A c \in [Field -> Value] :
          c \in Content /\ Crc(c) \in Stamps(c) /\ Crc(c) \in Byte \X Byte
    /\ \A c, d \in [Field -> Value] : Crc(c) = Crc(d) => c = d
<1>1. ASSUME NEW c \in [Field -> Value]
      PROVE  c \in Content /\ Crc(c) \in Stamps(c) /\ Crc(c) \in Byte \X Byte
  <2>1. c \in Content
    BY DEF Content
  <2>2. Crc(c) \in Byte \X Byte
    BY <2>1, CrcAssumption
  <2> QED
    BY <2>1, <2>2 DEF Stamps
<1>2. ASSUME NEW c \in [Field -> Value], NEW d \in [Field -> Value],
             Crc(c) = Crc(d)
      PROVE  c = d
  <2>1. c \in Content /\ Crc(c) \in Stamps(d)
    BY <1>1, <1>2
  <2> QED
    BY <2>1, CrcAssumption
<1> QED
  BY <1>1, <1>2

(***************************************************************************)
(* The checksum test of TakeGlobalInfo accepts nothing but source.         *)
(***************************************************************************)
LEMMA AcceptsSource == TypeOK /\ Stamped => AcceptedIsOneSave
<1> SUFFICES ASSUME TypeOK, Stamped, Valid(page) PROVE page.data = source
  BY DEF AcceptedIsOneSave
<1>1. page.data \in Content /\ source \in [Field -> Value]
  BY DEF TypeOK
<1>2. Crc(page.data) \in Stamps(source)
  BY DEF Valid, Stamped
<1> QED
  BY <1>1, <1>2, CrcAssumption

-----------------------------------------------------------------------------
(***************************************************************************)
(* A new module: an erased page and default settings.                      *)
(***************************************************************************)
LEMMA FlashInit == Init => FlashInv
<1> SUFFICES ASSUME Init PROVE FlashInv
  OBVIOUS
<1>1. Default \in [Field -> Value]
  BY LayoutAssumption
<1>2. Blank \in Content /\ <<Erased, Erased>> \in Byte \X Byte
      /\ <<0, 0>> \in Byte \X Byte
  BY DEF Blank, Content, Byte, Erased
<1>3. 1 \in 1..(Words(SIZE) + 1)
  BY EveryByteHasAWord
<1>4. clean \in BOOLEAN /\ ~clean
  BY Zenon DEF Init
<1>5. TypeOK
  BY <1>1, <1>2, <1>3, <1>4 DEF Init, TypeOK
<1>6. <<Erased, Erased>> \in Stamps(Default)
  BY DEF Stamps
<1> QED
  BY <1>4, <1>5, <1>6 DEF Init, FlashInv, Stamped, Undisturbed, InRecord

(***************************************************************************)
(* SaveGlobalInfo: the checksum is taken of the settings in force.         *)
(***************************************************************************)
LEMMA SaveKeeps == FlashInv /\ SaveGlobalInfo => FlashInv'
<1> SUFFICES ASSUME FlashInv, SaveGlobalInfo PROVE FlashInv'
  OBVIOUS
<1>1. info \in [Field -> Value]
  BY DEF FlashInv, TypeOK
<1>2. Crc(info) \in Byte \X Byte
  BY <1>1, CrcFacts
<1>3. clean' \in BOOLEAN
  BY Zenon DEF SaveGlobalInfo
<1>4. TypeOK'
  BY <1>1, <1>2, <1>3 DEF FlashInv, TypeOK, SaveGlobalInfo
<1>5. Stamped'
  BY DEF FlashInv, Stamped, SaveGlobalInfo, Stamps
<1>6. Undisturbed' /\ InRecord'
  BY DEF Undisturbed, SaveGlobalInfo, InRecord
<1> QED
  BY <1>4, <1>5, <1>6 DEF FlashInv

(***************************************************************************)
(* Erase: the page belongs to the save under way, or is left as it was.    *)
(***************************************************************************)
LEMMA EraseKeeps == FlashInv /\ Erase => FlashInv'
<1> SUFFICES ASSUME FlashInv, Erase PROVE FlashInv'
  OBVIOUS
<1>0. /\ Blank \in Content /\ <<Erased, Erased>> \in Byte \X Byte
      /\ 1 \in 1..(Words(SIZE) + 1)
  BY EveryByteHasAWord DEF Blank, Content, Byte, Erased
<1>1. CASE /\ page' = [data |-> Blank, crc |-> <<Erased, Erased>>]
           /\ pc' = "program" /\ word' = 1 /\ source' = snap
           /\ UNCHANGED clean
  <2>1. TypeOK'
    BY <1>0, <1>1 DEF FlashInv, TypeOK, Erase
  <2>2. Stamped'
    <3>1. page'.crc \in Stamps(source')
      BY <1>1 DEF Stamps
    <3>2. crc' = Crc(snap') /\ source' = snap'
      BY <1>1 DEF FlashInv, Stamped, Erase
    <3> QED
      BY <1>1, <3>1, <3>2 DEF Stamped, Stamps
  <2>3. Copied'
    <3>1. \A o \in 0..(SIZE - 1) : WordOf(o) >= 1
      BY LayoutAssumption DEF WordOf
    <3>2. SIZE - 2 \in 0..(SIZE - 1) /\ SIZE - 1 \in 0..(SIZE - 1)
      BY LayoutAssumption
    <3>3. \A f \in Field : Offset[f] \in 0..(SIZE - 1)
      BY LayoutAssumption
    <3>4. \A o \in 0..(SIZE - 1) : ~(WordOf(o) < 1)
      BY <3>1, EveryByteHasAWord
    <3> QED
      BY <1>1, <3>2, <3>3, <3>4 DEF Copied
  <2>4. Undisturbed'
    BY <1>1, <2>3 DEF FlashInv, Undisturbed, Erase
  <2>5. InRecord'
    BY <1>1, EveryByteHasAWord DEF InRecord
  <2> QED
    BY <2>1, <2>2, <2>4, <2>5 DEF FlashInv
<1>2. CASE pc' = "idle" /\ clean' = FALSE /\ UNCHANGED <<page, word, source>>
  <2>1. clean' \in BOOLEAN /\ ~clean'
    BY <1>2, Zenon
  <2>2. TypeOK'
    BY <1>2, <2>1 DEF FlashInv, TypeOK, Erase
  <2>3. Stamped'
    BY <1>2 DEF FlashInv, Stamped, Erase, Stamps
  <2>4. Undisturbed'
    BY <2>1 DEF Undisturbed
  <2> QED
    BY <1>2, <2>2, <2>3, <2>4 DEF FlashInv, InRecord
<1> QED
  BY <1>1, <1>2 DEF Erase

(***************************************************************************)
(* Program: one more double word of the page holds what gInfo holds there; *)
(* after the last one, the whole record does.                              *)
(***************************************************************************)
LEMMA ProgramKeeps == FlashInv /\ Program => FlashInv'
<1> SUFFICES ASSUME FlashInv, Program PROVE FlashInv'
  OBVIOUS
<1>0. /\ TypeOK /\ Stamped /\ Undisturbed
      /\ pc = "program" /\ crc = Crc(snap) /\ source = snap
  BY DEF FlashInv, Program, Stamped
<1>1. /\ word \in 1..(Words(SIZE) + 1) /\ Words(SIZE) \in Nat
      /\ info \in [Field -> Value] /\ page.data \in Content
      /\ crc \in Byte \X Byte /\ page.crc \in Byte \X Byte
      /\ snap \in [Field -> Value]
  BY <1>0, EveryByteHasAWord DEF TypeOK
<1>2. word <= Words(SIZE)
  BY <1>0 DEF FlashInv, InRecord
<1>3. /\ word' \in 1..(Words(SIZE) + 1)
      /\ pc' \in {"program", "idle"} /\ InRecord'
  BY <1>1, <1>2 DEF Program, InRecord
<1>4. CASE page' = Programmed(word) /\ UNCHANGED clean
  <2>1. page'.data \in Content
    BY <1>1, <1>4 DEF Programmed, Content
  <2>2. page'.crc \in Byte \X Byte
    BY <1>1, <1>4 DEF Programmed
  <2>3. page' = [data |-> page'.data, crc |-> page'.crc]
    BY <1>4 DEF Programmed
  <2>4. TypeOK'
    BY <1>0, <1>3, <1>4, <2>1, <2>2, <2>3 DEF TypeOK, Program
  <2>5. Stamped'
    <3>1. page.crc \in {Crc(snap)[1], Erased} \X {Crc(snap)[2], Erased}
      BY <1>0 DEF Stamped, Stamps
    <3>2. page'.crc \in {Crc(snap)[1], Erased} \X {Crc(snap)[2], Erased}
      BY <1>0, <1>4, <3>1 DEF Programmed
    <3> QED
      BY <1>0, <1>3, <3>2 DEF Stamped, Stamps, Program
  <2>6. ASSUME clean PROVE Copied'
    <3>1. Copied
      BY <1>0, <2>6 DEF Undisturbed
    <3>2. \A o \in 0..(SIZE - 1) :
             WordOf(o) < word' => WordOf(o) < word \/ WordOf(o) = word
      BY <1>1, EveryByteHasAWord DEF Program
    <3>3. SIZE - 2 \in 0..(SIZE - 1) /\ SIZE - 1 \in 0..(SIZE - 1)
      BY LayoutAssumption
    <3>4. \A f \in Field : Offset[f] \in 0..(SIZE - 1)
      BY LayoutAssumption
    <3>5. /\ \A f \in Field : page'.data[f] =
                IF WordOf(Offset[f]) = word THEN info[f] ELSE page.data[f]
          /\ page'.crc[1] = IF WordOf(SIZE - 2) = word THEN crc[1] ELSE page.crc[1]
          /\ page'.crc[2] = IF WordOf(SIZE - 1) = word THEN crc[2] ELSE page.crc[2]
      BY <1>4 DEF Programmed
    <3>6. info' = info /\ crc' = crc
      BY DEF Program
    <3> QED
      BY <3>1, <3>2, <3>3, <3>4, <3>5, <3>6 DEF Copied
  <2>7. ASSUME clean, pc' = "idle"
        PROVE  page'.data = source' /\ page'.crc = Crc(source')
    <3>1. word' = Words(SIZE) + 1
      BY <1>1, <1>2, <2>7 DEF Program
    <3>2. \A o \in 0..(SIZE - 1) : WordOf(o) < word'
      BY <1>1, <3>1, EveryByteHasAWord
    <3>3. SIZE - 2 \in 0..(SIZE - 1) /\ SIZE - 1 \in 0..(SIZE - 1)
      BY LayoutAssumption
    <3>4. \A f \in Field : Offset[f] \in 0..(SIZE - 1)
      BY LayoutAssumption
    <3>5. /\ \A f \in Field : page'.data[f] = info'[f]
          /\ page'.crc[1] = crc'[1] /\ page'.crc[2] = crc'[2]
      BY <2>6, <2>7, <3>2, <3>3, <3>4 DEF Copied
    <3>6. info' = snap /\ source' = snap /\ crc' = Crc(snap)
      BY <1>0, <2>7 DEF Program, Undisturbed
    <3>7. page'.data = snap
      BY <1>1, <2>1, <3>5, <3>6 DEF Content
    <3>8. page'.crc = Crc(snap)
      BY <1>0, <1>1, <2>2, <3>5, <3>6
    <3> QED
      BY <3>6, <3>7, <3>8
  <2>8. Undisturbed'
    <3>1. ASSUME clean PROVE info' = snap' /\ last_crc' = Crc(snap')
      BY <1>0, <3>1 DEF Undisturbed, Program
    <3>2. clean' = clean /\ source' = source /\ source' = snap'
      BY <1>0, <1>4 DEF Program
    <3> QED
      BY <1>3, <2>6, <2>7, <3>1, <3>2 DEF Undisturbed
  <2> QED
    BY <1>3, <2>4, <2>5, <2>8 DEF FlashInv
<1>5. CASE clean' = FALSE /\ UNCHANGED page
  <2>1. clean' \in BOOLEAN /\ ~clean'
    BY <1>5, Zenon
  <2>2. TypeOK'
    BY <1>0, <1>3, <1>5, <2>1 DEF TypeOK, Program
  <2>3. Stamped'
    BY <1>0, <1>5 DEF Stamped, Program, Stamps
  <2>4. Undisturbed'
    BY <2>1 DEF Undisturbed
  <2> QED
    BY <1>3, <2>2, <2>3, <2>4 DEF FlashInv
<1> QED
  BY <1>4, <1>5 DEF Program

(***************************************************************************)
(* TakeGlobalInfo: what is accepted is source, so it has real values.      *)
(***************************************************************************)
LEMMA TakeKeeps == FlashInv /\ TakeGlobalInfo => FlashInv'
<1> SUFFICES ASSUME FlashInv, TakeGlobalInfo PROVE FlashInv'
  OBVIOUS
<1>0. TypeOK /\ Stamped /\ Undisturbed /\ AcceptedIsOneSave
  BY AcceptsSource DEF FlashInv
<1>1. info' \in [Field -> Value] /\ crc' \in Byte \X Byte
  <2>1. "registerState" \in Field /\ 0 \in Value
    BY LayoutAssumption DEF Field
  <2>2. CASE Valid(page)
    <3>1. page.data \in [Field -> Value] /\ page.crc \in Byte \X Byte
      BY <1>0, <2>2 DEF AcceptedIsOneSave, TypeOK
    <3>2. info' = [page.data EXCEPT !["registerState"] = 0] /\ crc' = page.crc
      BY <2>2 DEF TakeGlobalInfo
    <3> QED
      BY <2>1, <3>1, <3>2
  <2>3. CASE ~Valid(page)
    <3>1. info' = [Default EXCEPT !["registerState"] = 0] /\ crc' = <<0, 0>>
      BY <2>3 DEF TakeGlobalInfo
    <3>2. Default \in [Field -> Value]
      BY LayoutAssumption
    <3> QED
      BY <2>1, <3>1, <3>2 DEF Byte
  <2> QED
    BY <2>2, <2>3
<1>2. /\ last_crc' = <<0, 0>> /\ pc = "off" /\ pc' = "idle"
      /\ UNCHANGED <<page, word, snap, source, clean>>
  BY DEF TakeGlobalInfo
<1>3. TypeOK'
  BY <1>0, <1>1, <1>2 DEF TypeOK, Byte
<1>4. Stamped' /\ InRecord'
  BY <1>0, <1>2 DEF Stamped, Stamps, InRecord
<1>5. Undisturbed'
  BY <1>0, <1>2 DEF Undisturbed
<1> QED
  BY <1>3, <1>4, <1>5 DEF FlashInv

(***************************************************************************)
(* What the other threads and the power supply do.                         *)
(***************************************************************************)
LEMMA DisturbKeeps == FlashInv /\ Disturb => FlashInv'
<1> SUFFICES ASSUME FlashInv, Disturb PROVE FlashInv'
  OBVIOUS
<1>0. TypeOK /\ Stamped /\ Undisturbed /\ InRecord
  BY DEF FlashInv
<1>1. ASSUME NEW f \in Field, NEW v \in Value, Change(f, v) PROVE FlashInv'
  <2>1. TypeOK'
    BY <1>0, <1>1 DEF TypeOK, Change
  <2>2. Stamped' /\ InRecord'
    BY <1>0, <1>1 DEF Stamped, Stamps, InRecord, Change
  <2>3. Undisturbed'
    BY <1>0, <1>1 DEF Undisturbed, Change
  <2> QED
    BY <2>1, <2>2, <2>3 DEF FlashInv
<1>2. ASSUME NEW f \in Field, NEW v \in Value, MainWrites(f, v) PROVE FlashInv'
  <2>1. clean' \in BOOLEAN /\ (clean' => clean /\ pc = "idle")
    BY <1>2, Zenon DEF MainWrites
  <2>2. TypeOK'
    BY <1>0, <1>2, <2>1 DEF TypeOK, MainWrites
  <2>3. Stamped' /\ InRecord'
    BY <1>0, <1>2 DEF Stamped, Stamps, InRecord, MainWrites
  <2>4. Undisturbed'
    BY <1>0, <1>2, <2>1 DEF Undisturbed, MainWrites
  <2> QED
    BY <2>2, <2>3, <2>4 DEF FlashInv
<1>3. CASE Reset
  <2>1. clean' \in BOOLEAN /\ ~clean'
    BY <1>3, Zenon DEF Reset
  <2>2. TypeOK'
    BY <1>0, <1>3, <2>1, LayoutAssumption, EveryByteHasAWord DEF TypeOK, Reset, Byte
  <2>3. Stamped' /\ InRecord'
    BY <1>0, <1>3 DEF Stamped, Stamps, InRecord, Reset
  <2>4. Undisturbed'
    BY <1>0, <1>3, <2>1 DEF Undisturbed, Reset
  <2> QED
    BY <2>2, <2>3, <2>4 DEF FlashInv
<1> QED
  BY <1>1, <1>2, <1>3 DEF Disturb

-----------------------------------------------------------------------------
(***************************************************************************)
(* The invariant of the saved settings, under every interleaving, failure  *)
(* of the flash and reset.                                                 *)
(***************************************************************************)
THEOREM FlashInvariant == Spec => []FlashInv
<1>1. FlashInv /\ UNCHANGED vars => FlashInv'
  BY DEF FlashInv, TypeOK, Stamped, Stamps, Undisturbed, Copied, InRecord, vars
<1>2. FlashInv /\ [Next]_vars => FlashInv'
  BY <1>1, SaveKeeps, EraseKeeps, ProgramKeeps, TakeKeeps, DisturbKeeps
     DEF Next, Save
<1> QED
  BY <1>2, FlashInit, PTL DEF Spec

(***************************************************************************)
(* What TakeGlobalInfo restores has real values only.                      *)
(***************************************************************************)
THEOREM RestoredIsTyped == Spec => []TypeOK
<1>1. FlashInv => TypeOK
  BY DEF FlashInv
<1> QED
  BY <1>1, FlashInvariant, PTL

(***************************************************************************)
(* What TakeGlobalInfo accepts is what gInfo held when the checksum of one *)
(* save was taken, wherever that save was cut off or disturbed.            *)
(***************************************************************************)
THEOREM NoMixtureIsAccepted == Spec => []AcceptedIsOneSave
<1>1. FlashInv => AcceptedIsOneSave
  BY AcceptsSource DEF FlashInv
<1> QED
  BY <1>1, FlashInvariant, PTL

(***************************************************************************)
(* When SaveGlobalInfo sees nothing to do after a clean save, the flash    *)
(* holds the settings in force.                                            *)
(***************************************************************************)
THEOREM CleanSaveIsComplete == Spec => []NothingToSaveMeansSaved
<1>1. FlashInv => NothingToSaveMeansSaved
  <2> SUFFICES ASSUME FlashInv, pc = "idle", last_crc = Crc(info), clean
               PROVE  Valid(page) /\ page.data = info
    BY DEF NothingToSaveMeansSaved
  <2>1. info \in [Field -> Value] /\ source \in [Field -> Value]
    BY DEF FlashInv, TypeOK
  <2>2. page.data = source /\ page.crc = Crc(source)
        /\ last_crc = Crc(source)
    BY DEF FlashInv, Undisturbed
  <2>3. info = source
    BY <2>1, <2>2, CrcFacts
  <2> QED
    BY <2>2, <2>3 DEF Valid
<1> QED
  BY <1>1, FlashInvariant, PTL

-----------------------------------------------------------------------------
(* The page as an abstract store.                                          *)

\* An erased page is no record, whatever its bytes would mean as fields.
LEMMA BlankIsNothing == ~Valid([data |-> Blank, crc |-> <<Erased, Erased>>])
<1> SUFFICES ASSUME Crc(Blank) = <<Erased, Erased>> PROVE FALSE
  BY DEF Valid
<1> DEFINE d == [f \in Field |-> 0]
<1>1. d \in [Field -> Value] /\ "registerState" \in Field
  BY LayoutAssumption DEF Field
<1>2. Blank \in Content /\ Crc(Blank) \in Stamps(d)
  BY DEF Blank, Content, Stamps
<1>3. Blank = d
  BY <1>1, <1>2, CrcAssumption
<1>4. Blank["registerState"] = 255 /\ d["registerState"] = 0
  BY <1>1 DEF Blank, Erased
<1> QED
  BY <1>3, <1>4

(***************************************************************************)
(* A save has not touched the checksum before it comes to its double word. *)
(***************************************************************************)
Unstamped ==
    pc = "program" /\ word <= WordOf(SIZE - 2) => page.crc = <<Erased, Erased>>

\* The checksum follows the fields, its low byte first.
LEMMA ChecksumIsLast ==
    /\ WordOf(SIZE - 2) \in Nat /\ WordOf(SIZE - 1) \in Nat
    /\ WordOf(SIZE - 2) <= WordOf(SIZE - 1)
    /\ \A f \in Field : WordOf(Offset[f]) \in Nat
                        /\ WordOf(Offset[f]) <= WordOf(SIZE - 2)
<1>1. SIZE \in Nat /\ SIZE >= 3 /\ \A f \in Field : Offset[f] \in 0..(SIZE - 3)
  BY LayoutAssumption
<1>2. ASSUME NEW o \in Nat, NEW p \in Nat, o <= p
      PROVE  WordOf(o) \in Nat /\ WordOf(o) <= WordOf(p)
  BY <1>2 DEF WordOf
<1>3. SIZE - 2 \in Nat /\ SIZE - 1 \in Nat /\ SIZE - 2 <= SIZE - 1
  BY <1>1
<1>4. \A f \in Field : Offset[f] \in Nat /\ Offset[f] <= SIZE - 2
  BY <1>1
<1> QED
  BY <1>2, <1>3, <1>4

LEMMA UnstampedHolds == Spec => []Unstamped
<1>1. Init => Unstamped
  BY DEF Init, Unstamped
<1>2. FlashInv /\ Unstamped /\ [Next]_vars => Unstamped'
  <2> SUFFICES ASSUME FlashInv, Unstamped, [Next]_vars PROVE Unstamped'
    OBVIOUS
  <2>1. CASE UNCHANGED vars
    BY <2>1 DEF Unstamped, vars
  <2>2. CASE TakeGlobalInfo \/ SaveGlobalInfo
    BY <2>2 DEF Unstamped, TakeGlobalInfo, SaveGlobalInfo
  <2>3. CASE Erase
    BY <2>3 DEF Unstamped, Erase
  <2>4. CASE Program
    <3> SUFFICES ASSUME pc' = "program", word' <= WordOf(SIZE - 2)
                 PROVE  page'.crc = <<Erased, Erased>>
      BY DEF Unstamped
    <3>1. word \in Nat /\ word' = word + 1 /\ page.crc \in Byte \X Byte
      BY <2>4 DEF FlashInv, TypeOK, Program
    <3>2. word < WordOf(SIZE - 2) /\ word < WordOf(SIZE - 1)
      BY <3>1, ChecksumIsLast
    <3>3. page.crc = <<Erased, Erased>>
      BY <2>4, <3>1, <3>2, ChecksumIsLast DEF Unstamped, Program
    <3>4. WordOf(SIZE - 2) # word /\ WordOf(SIZE - 1) # word
      BY <3>1, <3>2, ChecksumIsLast
    <3>5. page' = page \/ page' = Programmed(word)
      BY <2>4 DEF Program
    <3> QED
      BY <3>3, <3>4, <3>5 DEF Programmed
  <2>5. CASE Disturb
    <3>1. pc' \in {pc, "off"} /\ page' = page /\ (pc' = pc => word' = word)
      BY <2>5 DEF Disturb, Change, MainWrites, Reset
    <3> QED
      BY <3>1 DEF Unstamped
  <2> QED
    BY <2>1, <2>2, <2>3, <2>4, <2>5 DEF Next, Save
<1> QED
  BY <1>1, <1>2, FlashInvariant, PTL DEF Spec

(***************************************************************************)
(* A record that is acceptable before the save is over stays so: its fields*)
(* are behind, and all that may be left to program is the high byte of the *)
(* checksum, equal to an erased one.                                       *)
(***************************************************************************)
LEMMA RecordStays == FlashInv /\ Unstamped /\ Program /\ Valid(page) => page' = page
<1> SUFFICES ASSUME FlashInv, Unstamped, Program, Valid(page) PROVE page' = page
  OBVIOUS
<1>0. /\ pc = "program" /\ crc = Crc(snap) /\ source = snap
      /\ page.data = source /\ page.crc = Crc(source)
  BY AcceptsSource DEF FlashInv, Stamped, Program, AcceptedIsOneSave, Valid
<1>1. /\ info \in [Field -> Value] /\ source \in [Field -> Value]
      /\ page \in [data : Content, crc : Byte \X Byte] /\ word \in Nat
  BY DEF FlashInv, TypeOK
<1>2. CASE page' = page
  BY <1>2
<1>3. CASE page' = Programmed(word)
  <2>1. page'.crc = page.crc
    <3>1. page'.crc = <<page.crc[1], page.crc[2]>>
      BY <1>0, <1>3 DEF Programmed
    <3> QED
      BY <1>1, <3>1
  <2>2. ASSUME NEW f \in Field PROVE page'.data[f] = page.data[f]
    <3>1. page'.data[f] = IF WordOf(Offset[f]) = word THEN info[f]
                          ELSE page.data[f]
      BY <1>3 DEF Programmed
    <3>2. CASE page.crc # <<Erased, Erased>>
      <4>1. word > WordOf(SIZE - 2)
        BY <1>0, <1>1, <3>2, ChecksumIsLast DEF Unstamped
      <4>2. WordOf(Offset[f]) # word
        BY <1>1, <4>1, ChecksumIsLast
      <4> QED
        BY <3>1, <4>2
    <3>3. CASE page.crc = <<Erased, Erased>>
      <4>1. source \in Content /\ Crc(source) \in Stamps(info)
        BY <1>0, <1>1, <3>3 DEF Content, Stamps
      <4>2. source = info
        BY <1>1, <4>1, CrcAssumption
      <4> QED
        BY <1>0, <3>1, <4>2
    <3> QED
      BY <3>2, <3>3
  <2>3. page'.data = page.data
    <3>1. page'.data = [f \in Field |-> page'.data[f]]
      BY <1>3 DEF Programmed
    <3>2. page.data = [f \in Field |-> page.data[f]]
      BY <1>1 DEF Content
    <3> QED
      BY <2>2, <3>1, <3>2
  <2>4. page' = [data |-> page'.data, crc |-> page'.crc]
    BY <1>3 DEF Programmed
  <2>5. page = [data |-> page.data, crc |-> page.crc]
    BY <1>1
  <2> QED
    BY <2>1, <2>3, <2>4, <2>5
<1> QED
  BY <1>2, <1>3 DEF Program

(***************************************************************************)
(* The flash page implements the store of whole records: every operation on*)
(* the flash gives up the old record, commits the settings the save took,  *)
(* ends the save, or is not visible, and a start finds what was committed. *)
(***************************************************************************)
THEOREM PageIsStore == Spec => IsStore
<1>1. Init => Promise!Init
  <2> SUFFICES ASSUME Init PROVE Promise!Init
    OBVIOUS
  <2>1. Stored = {}
    BY BlankIsNothing DEF Init, Stored
  <2> QED
    BY <2>1 DEF Init, Promise!Init
<1>2. FlashInv /\ FlashInv' /\ Unstamped /\ [Next]_vars
        => [Promise!Next]_<<pc, info, snap, Stored>>
  <2> SUFFICES ASSUME FlashInv, FlashInv', Unstamped, [Next]_vars
               PROVE  Promise!Next \/ UNCHANGED <<pc, info, snap, Stored>>
    OBVIOUS
  <2>0. page' = page => Stored' = Stored
    BY DEF Stored, Valid
  <2>1. CASE UNCHANGED vars
    BY <2>0, <2>1 DEF vars
  <2>2. CASE TakeGlobalInfo
    <3>1. Promise!Start
      <4>1. pc = "off" /\ pc' = "idle" /\ snap' = snap /\ Stored' = Stored
        BY <2>0, <2>2 DEF TakeGlobalInfo
      <4>2. CASE Valid(page)
        <5>1. Stored = {page.data} /\ Stored # {}
          BY <4>2 DEF Stored
        <5>2. page.data \in [Field -> Value]
          BY <4>2, AcceptsSource DEF FlashInv, AcceptedIsOneSave, TypeOK
        <5>3. info' = Woken[page.data]
          BY <2>2, <4>2, <5>2 DEF TakeGlobalInfo, Woken
        <5> QED
          BY <4>1, <5>1, <5>3 DEF Promise!Start
      <4>3. CASE ~Valid(page)
        <5>1. Stored = {}
          BY <4>3 DEF Stored
        <5>2. info' = Woken[Default]
          BY <2>2, <4>3, LayoutAssumption DEF TakeGlobalInfo, Woken
        <5> QED
          BY <4>1, <5>1, <5>2 DEF Promise!Start
      <4> QED
        BY <4>2, <4>3
    <3> QED
      BY <3>1 DEF Promise!Next
  <2>3. CASE SaveGlobalInfo
    <3>1. Promise!Begin
      BY <2>0, <2>3 DEF SaveGlobalInfo, Promise!Begin
    <3> QED
      BY <3>1 DEF Promise!Next
  <2>4. CASE Erase
    <3>1. info' = info /\ snap' = snap /\ pc = "erase"
      BY <2>4 DEF Erase
    <3>2. CASE pc' = "program" /\ page' = [data |-> Blank, crc |-> <<Erased, Erased>>]
      <4>1. Stored' = {}
        BY <3>2, BlankIsNothing DEF Stored
      <4>2. Promise!GiveUp
        BY <3>1, <3>2, <4>1 DEF Promise!GiveUp
      <4> QED
        BY <4>2 DEF Promise!Next
    <3>3. CASE pc' = "idle" /\ page' = page
      <4>1. Promise!End
        BY <2>0, <3>1, <3>3 DEF Promise!End
      <4> QED
        BY <4>1 DEF Promise!Next
    <3> QED
      BY <2>4, <3>2, <3>3 DEF Erase
  <2>5. CASE Program
    <3>1. /\ info' = info /\ snap' = snap /\ pc = "program"
          /\ pc' \in {"program", "idle"} /\ source' = source /\ source = snap
      BY <2>5 DEF Program, FlashInv, Stamped
    <3>2. CASE Stored' = Stored
      <4>1. CASE pc' = "idle"
        <5>1. Promise!End
          BY <3>1, <3>2, <4>1 DEF Promise!End
        <5> QED
          BY <5>1 DEF Promise!Next
      <4> QED
        BY <3>1, <3>2, <4>1
    <3>3. CASE Stored' # Stored
      <4>1. ~Valid(page)
        BY <2>0, <2>5, <3>3, RecordStays
      <4>2. Valid(page')
        BY <3>3, <4>1 DEF Stored
      <4>3. page'.data = source'
        <5>1. TypeOK' /\ Stamped'
          BY DEF FlashInv
        <5>2. AcceptedIsOneSave'
          BY <5>1, AcceptsSource, PTL
        <5> QED
          BY <4>2, <5>2 DEF AcceptedIsOneSave
      <4>4. Stored = {} /\ Stored' = {snap}
        BY <3>1, <4>1, <4>2, <4>3 DEF Stored
      <4>5. Promise!Commit
        BY <3>1, <4>4 DEF Promise!Commit
      <4> QED
        BY <4>5 DEF Promise!Next
    <3> QED
      BY <3>2, <3>3
  <2>6. ASSUME NEW f \in Field, NEW v \in Value, Change(f, v) \/ MainWrites(f, v)
        PROVE  Promise!Next
    <3>1. pc # "off" /\ pc' = pc /\ snap' = snap /\ page' = page
      BY <2>6 DEF Change, MainWrites
    <3>2. info' \in [Field -> Value]
      BY DEF FlashInv, TypeOK
    <3>3. Promise!Set
      BY <2>0, <3>1, <3>2 DEF Promise!Set
    <3> QED
      BY <3>3 DEF Promise!Next
  <2>7. CASE Reset
    <3>1. Promise!Crash
      BY <2>0, <2>7 DEF Reset, Promise!Crash
    <3> QED
      BY <3>1 DEF Promise!Next
  <2> QED
    BY <2>1, <2>2, <2>3, <2>4, <2>5, <2>6, <2>7 DEF Next, Save, Disturb
<1> QED
  BY <1>1, <1>2, FlashInvariant, UnstampedHolds, PTL
     DEF Spec, IsStore, Promise!Spec
=============================================================================
