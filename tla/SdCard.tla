------------------------------- MODULE SdCard --------------------------------
(***************************************************************************)
(* The SD card driver of src/src/diskio.c, with the chip select handling   *)
(* of src/src/main. One action is one command sent to the card, with the   *)
(* driver's reaction to the answer: between two commands the card may go   *)
(* or another one come. disk_read, disk_write and disk_ioctl begin with    *)
(* disk_status, and that may run disk_initialize.                          *)
(*                                                                         *)
(* The card is external: it is modelled by how it answers the commands of  *)
(* the driver. Its answers are the R1 bytes the driver tests.              *)
(***************************************************************************)
EXTENDS Integers, Sequences

CONSTANTS
    Cards,       \* the cards somebody may put into the slot
    NoCard,
    MaxTries,    \* how often disk_initialize tries CMD0 (1000)
    MaxCount     \* the most sectors a call asks for

ASSUME SdAssumption ==
    /\ NoCard \notin Cards
    /\ MaxTries \in Nat \ {0} /\ MaxCount \in Nat \ {0}

RES_OK == 0
RES_ERROR == 1
RES_NOTRDY == 3
STA_NOINIT == 1

VARIABLES
    card,     \* the card in the slot
    mode,     \* its state: "power" (just inserted), "idle" (after CMD0), "ready"
    sdcard_status,
    cs,       \* whether chip select is asserted (SD_CS low)
    pc,       \* the next command of the driver, "idle" between calls
    op,       \* the call under way, or the last one
    count,    \* the sectors it asks for
    caller,   \* who runs disk_initialize: "user", or disk_status at its first
              \* ("check") or last ("retry") line
    tries,    \* the local variable count of disk_initialize
    done,     \* the cards the sectors read or written so far belong to
    result,   \* what the last call returned
    calm      \* history: in the last call no card came, went or erred

cardVars == <<card, mode>>
callVars == <<op, count, caller, done>>
vars == <<cardVars, sdcard_status, cs, pc, callVars, tries, result, calm>>

Ops == {"init", "status", "read", "write", "sectors", "sync"}

Init ==
    /\ card \in Cards \union {NoCard} /\ mode = "power"
    /\ sdcard_status = STA_NOINIT
    /\ cs = FALSE
    /\ pc = "idle" /\ op = "init" /\ count = 0 /\ caller = "user"
    /\ tries = 0 /\ done = <<>> /\ result = RES_OK /\ calm = TRUE

-----------------------------------------------------------------------------
(* The card.                                                                 *)

Remove ==
    /\ card # NoCard
    /\ card' = NoCard /\ mode' = "power"
    /\ calm' = (calm /\ pc = "idle")
    /\ UNCHANGED <<sdcard_status, cs, pc, callVars, tries, result>>

Insert(c) ==
    /\ card = NoCard
    /\ card' = c /\ mode' = "power"
    /\ calm' = (calm /\ pc = "idle")
    /\ UNCHANGED <<sdcard_status, cs, pc, callVars, tries, result>>

\* A card hears a command while chip select is asserted; selected says so.
Hears(selected) == selected /\ card # NoCard

\* A card that can carry out a command does, or it errs. ok says whether it did.
Carries(can, ok) == ok \in {can, FALSE} /\ calm' = (calm /\ ok = can)

-----------------------------------------------------------------------------
(* Returning from the functions.                                             *)

Finish(res) == pc' = "idle" /\ result' = res /\ UNCHANGED <<callVars, tries>>

\* What follows the return of disk_status(stat). selected is the chip select it
\* leaves behind.
StatusReturns(stat, selected) ==
    \/ op = "status" /\ Finish(stat) /\ cs' = selected
    \/ /\ op \in {"read", "write", "sectors", "sync"}
       /\ stat = STA_NOINIT
       /\ Finish(RES_NOTRDY) /\ cs' = selected
    \/ /\ op \in {"read", "write"} /\ stat # STA_NOINIT
       /\ cs' = TRUE /\ pc' = "block" /\ done' = <<>>
       /\ UNCHANGED <<op, count, caller, tries, result>>
    \/ op = "sync" /\ stat # STA_NOINIT /\ Finish(RES_OK) /\ cs' = selected
    \/ /\ op = "sectors" /\ stat # STA_NOINIT
       /\ cs' = selected /\ pc' = "csd"
       /\ UNCHANGED <<callVars, tries, result>>

\* What follows the return of disk_initialize(stat), called with the drive's
\* status still stored.
InitReturns(stat, selected, stored) ==
    \/ /\ caller = "user"
       /\ sdcard_status' = stored /\ Finish(stat) /\ cs' = selected
    \/ /\ caller = "check"
       /\ sdcard_status' = stat
       /\ cs' = selected /\ pc' = "ocr"
       /\ UNCHANGED <<callVars, tries, result>>
    \/ /\ caller = "retry"
       /\ sdcard_status' = stored
       /\ StatusReturns(stat, selected)

-----------------------------------------------------------------------------
(* disk_initialize.                                                          *)

\* Mutant: a failed CMD0 is not tried again.
GoIdle_Once ==
    /\ pc = "init"
    /\ tries' = tries + 1
    /\ pc' = "acmd41" /\ cs' = FALSE
    /\ mode' = IF card = NoCard THEN mode ELSE "idle"
    /\ UNCHANGED <<card, sdcard_status, callVars, result, calm>>

\* CMD0, up to MaxTries times. After a failed one chip select stays asserted
\* until init_sdcard_io() of the next try.
GoIdle ==
    /\ pc = "init" /\ tries < MaxTries
    /\ tries' = tries + 1
    /\ \E ok \in BOOLEAN :
          /\ Carries(Hears(TRUE), ok)
          /\ IF ok THEN mode' = "idle" /\ cs' = FALSE /\ pc' = "acmd41"
                   ELSE UNCHANGED mode /\ cs' = TRUE /\ UNCHANGED pc
    /\ UNCHANGED <<card, sdcard_status, callVars, result>>

GiveUp ==
    /\ pc = "init" /\ tries >= MaxTries
    /\ InitReturns(STA_NOINIT, cs, sdcard_status)
    /\ UNCHANGED <<cardVars, calm>>

\* CMD8 (answer ignored), then CMD55 and CMD41 until the card is ready. The
\* loop has no bound.
StartInit ==
    /\ pc = "acmd41"
    /\ cs' = FALSE
    /\ \/ /\ Hears(TRUE) /\ mode # "power"
          /\ mode' = "ready" /\ pc' = "setup"
       \/ UNCHANGED <<mode, pc>>
    /\ UNCHANGED <<card, sdcard_status, callVars, tries, result, calm>>

\* CMD58 and CMD16; their answers are ignored.
SetUp ==
    /\ pc = "setup"
    /\ InitReturns(RES_OK, FALSE, RES_OK)
    /\ UNCHANGED <<cardVars, calm>>

-----------------------------------------------------------------------------
(* disk_status: CMD58 tells whether the card still answers.                  *)

\* Mutant: disk_status does not initialise a drive that stopped answering.
ReadOcr_NoRetry ==
    /\ pc = "ocr"
    /\ \E ok \in BOOLEAN :
          /\ Carries(Hears(TRUE) /\ mode = "ready", ok)
          /\ IF ok
             THEN StatusReturns(RES_OK, TRUE) /\ UNCHANGED sdcard_status
             ELSE StatusReturns(STA_NOINIT, FALSE) /\ sdcard_status' = STA_NOINIT
    /\ UNCHANGED cardVars

ReadOcr ==
    /\ pc = "ocr"
    /\ \E ok \in BOOLEAN :
          /\ Carries(Hears(TRUE) /\ mode = "ready", ok)
          /\ IF ok
             THEN StatusReturns(RES_OK, TRUE) /\ UNCHANGED sdcard_status
             ELSE /\ cs' = FALSE /\ sdcard_status' = STA_NOINIT
                  /\ pc' = "init" /\ caller' = "retry" /\ tries' = 0
                  /\ UNCHANGED <<op, count, done, result>>
    /\ UNCHANGED cardVars

-----------------------------------------------------------------------------
(* disk_read, disk_write and disk_ioctl after disk_status.                   *)

\* Mutant: an error leaves the function without disable_sdcard().
BlocksEnd_Selected(status) == cs' = (status # RES_OK) /\ Finish(status)

BlocksEnd(status) == cs' = FALSE /\ Finish(status)

\* CMD17 or CMD24 for the next sector, if one is left.
Block ==
    /\ pc = "block"
    /\ \/ Len(done) = count /\ BlocksEnd(RES_OK) /\ UNCHANGED calm
       \/ /\ Len(done) < count
          /\ \E ok \in BOOLEAN :
                /\ Carries(Hears(cs) /\ mode = "ready", ok)
                /\ IF ok THEN pc' = "data" /\ UNCHANGED <<cs, callVars, tries, result>>
                         ELSE BlocksEnd(RES_ERROR)
    /\ UNCHANGED <<cardVars, sdcard_status>>

Transferred(c) ==
    /\ done' = Append(done, c)
    /\ pc' = "block"
    /\ UNCHANGED <<cs, op, count, caller, tries, result>>

\* Mutant: the result of sdcard_readblock is not looked at.
ReadData_NoTest ==
    /\ pc = "data" /\ op = "read"
    /\ Transferred(card)
    /\ UNCHANGED <<cardVars, sdcard_status, calm>>

\* sdcard_readblock: a card that stays silent is given up on.
ReadData ==
    /\ pc = "data" /\ op = "read"
    /\ \E ok \in BOOLEAN :
          /\ Carries(Hears(cs) /\ mode = "ready", ok)
          /\ IF ok THEN Transferred(card) ELSE BlocksEnd(RES_ERROR)
    /\ UNCHANGED <<cardVars, sdcard_status>>

\* sdcard_writeblock waits for the card's answer without a bound.
WriteData ==
    /\ pc = "data" /\ op = "write"
    /\ Hears(cs) /\ mode = "ready"
    /\ \E ok \in BOOLEAN :
          /\ Carries(TRUE, ok)
          /\ IF ok THEN Transferred(card) ELSE BlocksEnd(RES_ERROR)
    /\ UNCHANGED <<cardVars, sdcard_status>>

\* CMD9. disk_ioctl does not assert chip select itself, nor release it.
SectorCount ==
    /\ pc = "csd"
    /\ \E ok \in BOOLEAN :
          /\ Carries(Hears(cs) /\ mode = "ready", ok)
          /\ Finish(IF ok THEN RES_OK ELSE RES_ERROR)
    /\ UNCHANGED <<cardVars, sdcard_status, cs>>

-----------------------------------------------------------------------------
\* A call by FatFs.
Call(o, n) ==
    /\ pc = "idle"
    /\ op' = o /\ count' = n /\ done' = <<>> /\ calm' = TRUE
    /\ IF o = "init" THEN pc' = "init" /\ caller' = "user" /\ tries' = 0
       ELSE IF sdcard_status # RES_OK THEN pc' = "init" /\ caller' = "check" /\ tries' = 0
       ELSE pc' = "ocr" /\ UNCHANGED <<caller, tries>>
    /\ UNCHANGED <<cardVars, sdcard_status, cs, result>>

Driver ==
    \/ GoIdle \/ GiveUp \/ StartInit \/ SetUp \/ ReadOcr
    \/ Block \/ ReadData \/ WriteData \/ SectorCount

Next ==
    \/ Driver
    \/ Remove \/ \E c \in Cards : Insert(c)
    \/ \E o \in {"init", "status", "sectors", "sync"} : Call(o, 1)
    \/ \E o \in {"read", "write"}, n \in 1..MaxCount : Call(o, n)

\* The driver runs on, and a card that is left alone finishes its own start-up.
Spec ==
    /\ Init /\ [][Next]_vars
    /\ WF_vars(Driver) /\ WF_vars(StartInit /\ pc' = "setup")

-----------------------------------------------------------------------------
(* Properties.                                                               *)

TypeOK ==
    /\ card \in Cards \union {NoCard} /\ mode \in {"power", "idle", "ready"}
    /\ sdcard_status \in {RES_OK, STA_NOINIT}
    /\ cs \in BOOLEAN
    /\ pc \in {"idle", "init", "acmd41", "setup", "ocr", "block", "data", "csd"}
    /\ op \in Ops /\ count \in 0..MaxCount
    /\ caller \in {"user", "check", "retry"} /\ tries \in 0..MaxTries
    /\ done \in Seq(Cards) /\ Len(done) <= count
    /\ result \in {RES_OK, RES_ERROR, RES_NOTRDY} /\ calm \in BOOLEAN

\* However far a read or write came, the card is released when it returns,
\* unless the drive was not ready.
BusReleased == pc = "idle" /\ op \in {"read", "write"} /\ result # RES_NOTRDY => ~cs

\* A read or write that reports success has transferred every sector, and all
\* of them from or to one card, even if cards are swapped during the call.
OneCard ==
    pc = "idle" /\ op \in {"read", "write"} /\ result = RES_OK /\ count > 0 =>
        /\ Len(done) = count
        /\ \E c \in Cards : \A i \in DOMAIN done : done[i] = c

Returns == pc # "idle" /\ pc' = "idle"

\* If during a call no card goes or errs, the call succeeds exactly if there is a
\* card, whatever happened before: the card may have been exchanged, an earlier
\* call may have failed half-way and left chip select or sdcard_status behind.
SwapIsRecovered ==
    [][Returns /\ op # "sectors" /\ calm' =>
         (result' = RES_OK <=> card # NoCard)]_vars

\* diskio.c:345, "Get the number of sectors on the disk": the same for
\* GET_SECTOR_COUNT.
SectorCountIsAnswered ==
    [][Returns /\ op = "sectors" /\ calm' /\ card # NoCard => result' = RES_OK]_vars

\* Every call returns, unless a card goes or errs during it: the bound on CMD0,
\* the time-outs and the card's own progress end all the loops.
CallsReturn == pc # "idle" ~> (pc = "idle" \/ ~calm)
=============================================================================
