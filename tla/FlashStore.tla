----------------------------- MODULE FlashStore -----------------------------
(***************************************************************************)
(* The settings in flash: SaveGlobalInfo and flash_write (Uart.c), run by  *)
(* the uart thread every 10 s, and TakeGlobalInfo, run when it starts.     *)
(*                                                                         *)
(* A save computes the checksum over the live gInfo, erases the page and   *)
(* programs gInfo double word by double word, reading it again.  The main  *)
(* thread has the same priority and may run in between: it writes the      *)
(* status fields (registerState, connected, CoolOrHeat).  The other fields *)
(* are written by the uart thread itself and by the oled thread, which has *)
(* a lower priority and cannot run before the save is over.  The power may *)
(* fail between any two operations on the flash.                           *)
(***************************************************************************)
EXTENDS Integers

CONSTANTS
    Setting,    \* fields the host and the panel write
    Status,     \* fields the main thread writes
    Value,      \* values of a field
    Default,    \* InitGlobalInformation
    SIZE,       \* sizeof(type_info_t) in bytes (25); the last two are crc
    Offset,     \* offset of each field in type_info_t
    Crc(_)      \* usModbusRTU_CRC of the fields, <<low byte, high byte>>

Field   == Setting \cup Status
Byte    == 0..255
Erased  == 255
Content == [Field -> Value \cup {Erased}]
Blank   == [f \in Field |-> Erased]

ASSUME LayoutAssumption ==
    /\ SIZE \in Nat /\ SIZE >= 3
    /\ Offset \in [Field -> 0..(SIZE - 3)]
    /\ Default \in [Field -> Value]
    /\ "registerState" \in Status
    /\ 0 \in Value

\* What the two checksum bytes may be while a record of c is programmed.
Stamps(c) == {Crc(c)[1], Erased} \X {Crc(c)[2], Erased}

(***************************************************************************)
(* The checksum is ideal: whole or half programmed, it fits no content but *)
(* the one it was taken of.  It may be 0, the initial last_crc.            *)
(***************************************************************************)
ASSUME CrcAssumption ==
    /\ \A c \in Content : Crc(c) \in Byte \X Byte
    /\ \A c \in Content, d \in [Field -> Value] : Crc(c) \in Stamps(d) => c = d

VARIABLES
    info,     \* gInfo without crc
    crc,      \* gInfo.crc
    last_crc, \* static of SaveGlobalInfo
    page,     \* the flash page: fields and crc
    pc,       \* "off", "idle", "erase", "program"
    word,     \* the double word to program next
    snap,     \* history: what the checksum of the last save was taken of
    source,   \* history: snap of the save that last erased the page
    clean     \* history: there was a save since the start and the last one
              \* ran to its end, no field changed meanwhile and no operation
              \* on the flash failed

vars == <<info, crc, last_crc, page, pc, word, snap, source, clean>>

-----------------------------------------------------------------------------
(* flash_write                                                             *)

\* A slip: the last, incomplete double word is forgotten.
WordsTruncated(size) == size \div 8

\* The number of double words that hold size bytes.
Words(size) == IF size % 8 = 0 THEN size \div 8 ELSE size \div 8 + 1

WordOf(offset) == offset \div 8 + 1

\* The page once the double word w holds what gInfo holds there now.
Programmed(w) ==
    [data |-> [f \in Field |->
                 IF WordOf(Offset[f]) = w THEN info[f] ELSE page.data[f]],
     crc  |-> <<IF WordOf(SIZE - 2) = w THEN crc[1] ELSE page.crc[1],
                IF WordOf(SIZE - 1) = w THEN crc[2] ELSE page.crc[2]>>]

\* HAL_FLASHEx_Erase; when it fails flash_write returns at once.
Erase ==
    /\ pc = "erase"
    /\ \/ /\ page' = [data |-> Blank, crc |-> <<Erased, Erased>>]
          /\ pc' = "program"
          /\ word' = 1
          /\ source' = snap
          /\ UNCHANGED clean
       \/ /\ pc' = "idle"
          /\ clean' = FALSE
          /\ UNCHANGED <<page, word, source>>
    /\ UNCHANGED <<info, crc, last_crc, snap>>

\* A slip: a record that is no longer gInfo's is programmed over itself.
ProgramAgain ==
    /\ pc = "program"
    /\ \/ /\ page' = Programmed(word)
          /\ UNCHANGED clean
       \/ /\ clean' = FALSE
          /\ UNCHANGED page
    /\ LET again == word = Words(SIZE) /\ page'.data # info
       IN  /\ word' = IF again THEN 1 ELSE word + 1
           /\ pc' = IF again \/ word < Words(SIZE) THEN "program" ELSE "idle"
    /\ UNCHANGED <<info, crc, last_crc, snap, source>>

\* HAL_FLASH_Program; when it fails the loop goes on with the next one.
Program ==
    /\ pc = "program"
    /\ \/ /\ page' = Programmed(word)
          /\ UNCHANGED clean
       \/ /\ clean' = FALSE
          /\ UNCHANGED page
    /\ word' = word + 1
    /\ pc' = IF word < Words(SIZE) THEN "program" ELSE "idle"
    /\ UNCHANGED <<info, crc, last_crc, snap, source>>

-----------------------------------------------------------------------------
\* A slip: the test is skipped when there was a save in this session.
SaveGlobalInfoOnce ==
    /\ pc = "idle"
    /\ last_crc = <<0, 0>>
    /\ last_crc' = Crc(info)
    /\ crc' = Crc(info)
    /\ pc' = "erase"
    /\ snap' = info
    /\ clean' = TRUE
    /\ UNCHANGED <<info, page, word, source>>

\* SaveGlobalInfo up to the call of flash_write, when the checksum changed.
SaveGlobalInfo ==
    /\ pc = "idle"
    /\ last_crc # Crc(info)
    /\ last_crc' = Crc(info)
    /\ crc' = Crc(info)
    /\ pc' = "erase"
    /\ snap' = info
    /\ clean' = TRUE
    /\ UNCHANGED <<info, page, word, source>>

\* A slip: any record that was stamped is taken.
ValidWhenStamped(p) == p.crc # <<Erased, Erased>>

Valid(p) == Crc(p.data) = p.crc

\* A slip: the record is taken whatever its checksum.
TakeGlobalInfoBlindly ==
    /\ pc = "off"
    /\ info' = [page.data EXCEPT !["registerState"] = 0]
    /\ crc' = page.crc
    /\ last_crc' = <<0, 0>>
    /\ pc' = "idle"
    /\ UNCHANGED <<page, word, snap, source, clean>>

\* The thread starts: a record with the right checksum, or the defaults;
\* then registerState = NO.
TakeGlobalInfo ==
    /\ pc = "off"
    /\ IF Valid(page)
       THEN /\ info' = [page.data EXCEPT !["registerState"] = 0]
            /\ crc' = page.crc
       ELSE /\ info' = [Default EXCEPT !["registerState"] = 0]
            /\ crc' = <<0, 0>>
    /\ last_crc' = <<0, 0>>
    /\ pc' = "idle"
    /\ UNCHANGED <<page, word, snap, source, clean>>

\* A register is written or a key is pressed: never during a save.
Change(f, v) ==
    /\ f \in Setting
    /\ pc = "idle"
    /\ info' = [info EXCEPT ![f] = v]
    /\ UNCHANGED <<crc, last_crc, page, pc, word, snap, source, clean>>

\* The main thread writes a status field, also during a save.
MainWrites(f, v) ==
    /\ f \in Status
    /\ pc # "off"
    /\ v # info[f]
    /\ info' = [info EXCEPT ![f] = v]
    /\ clean' = (clean /\ pc = "idle")
    /\ UNCHANGED <<crc, last_crc, page, pc, word, snap, source>>

\* The power fails, or the module is reset: only the flash is kept.
Reset ==
    /\ pc # "off"
    /\ pc' = "off"
    /\ clean' = FALSE
    /\ info' = Default
    /\ crc' = <<0, 0>>
    /\ last_crc' = <<0, 0>>
    /\ word' = 1
    /\ UNCHANGED <<page, snap, source>>

Save == SaveGlobalInfo \/ Erase \/ Program

Disturb ==
    \/ \E f \in Field, v \in Value : Change(f, v) \/ MainWrites(f, v)
    \/ Reset

Init ==
    /\ info = Default
    /\ crc = <<0, 0>>
    /\ last_crc = <<0, 0>>
    /\ page = [data |-> Blank, crc |-> <<Erased, Erased>>]
    /\ pc = "off"
    /\ word = 1
    /\ snap = Default
    /\ source = Default
    /\ clean = FALSE

Next == TakeGlobalInfo \/ Save \/ Disturb

Spec == Init /\ [][Next]_vars

\* The thread starts and goes round its loop.
FairSpec == Spec /\ WF_vars(TakeGlobalInfo) /\ WF_vars(Save)

-----------------------------------------------------------------------------
(* Properties                                                              *)

\* The record TakeGlobalInfo would accept, and what it would make of it.
Stored == IF Valid(page) THEN {page.data} ELSE {}
Woken  == [s \in [Field -> Value] |-> [s EXCEPT !["registerState"] = 0]]

Promise == INSTANCE Store WITH Settings <- [Field -> Value], phase <- pc,
                               live <- info, taken <- snap, stored <- Stored

(***************************************************************************)
(* The flash page is a store of whole records: a save gives up the old one *)
(* (HAL_FLASHEx_Erase), then its own becomes acceptable at most once and   *)
(* stays so to the end of the save, although the double words are read from*)
(* gInfo one by one while the main thread writes it, some of them may fail,*)
(* and the checksum may be split between two of them.                      *)
(***************************************************************************)
IsStore == Promise!Spec

(***************************************************************************)
(* Types: what is restored is made of real values, never of erased bytes.  *)
(***************************************************************************)
TypeOK ==
    /\ info \in [Field -> Value]
    /\ crc \in Byte \X Byte
    /\ last_crc \in Byte \X Byte
    /\ page \in [data : Content, crc : Byte \X Byte]
    /\ pc \in {"off", "idle", "erase", "program"}
    /\ word \in 1..(Words(SIZE) + 1)
    /\ snap \in [Field -> Value]
    /\ source \in [Field -> Value]
    /\ clean \in BOOLEAN

(***************************************************************************)
(* What TakeGlobalInfo accepts is exactly what gInfo held when the checksum*)
(* of one save was taken: never fields of two saves, of one save and an    *)
(* erased page, or of before and after a change by the main thread.        *)
(***************************************************************************)
AcceptedIsOneSave == Valid(page) => page.data = source

(***************************************************************************)
(* When SaveGlobalInfo sees nothing to do (the checksum is that of the last*)
(* save), the flash holds the settings in force, provided there was a save *)
(* since the start and the last one was clean: a reset now loses nothing.  *)
(* (Before the first save, settings whose checksum is 0 are taken for      *)
(* saved.)                                                                 *)
(***************************************************************************)
NothingToSaveMeansSaved ==
    pc = "idle" /\ last_crc = Crc(info) /\ clean =>
        Valid(page) /\ page.data = info

(***************************************************************************)
(* Settings that no longer change are in the end in the flash, unless the  *)
(* last save was not clean and the fields then went back to what they were *)
(* when its checksum was taken, so that it is not repeated, or their       *)
(* checksum is 0 and there was no save since the start.                    *)
(***************************************************************************)
SettledIsSaved ==
    <>[][~Disturb]_vars /\ <>[](pc = "idle" => clean) =>
        <>[](Valid(page) /\ page.data = info)
=============================================================================
