----------------------------- MODULE MediaProofs -----------------------------
(***************************************************************************)
(* What FatFs asks of its surroundings: the functions of a disk and the    *)
(* clock.                                                                  *)
(*                                                                         *)
(* The SD card driver for every set of cards, number of tries and number   *)
(* of sectors.                                                             *)
(*                                                                         *)
(* The FAT clock for all dates and times that can be entered. Its month    *)
(* always has a name: that needs nothing of the day, whatever day          *)
(* advance_fattime leads to. And it is the calendar but for the listed     *)
(* ends of months: every carry and every end of a month is a case. The     *)
(* sets of the parts of a time and the larger numbers have names, so that  *)
(* the solvers need to know them only where they count.                    *)
(***************************************************************************)
EXTENDS SdCard, FatClock, TLAPS

-----------------------------------------------------------------------------
(* The driver.                                                               *)

Initialising == pc \in {"init", "acmd41", "setup"}
Transferring == pc \in {"block", "data"}

\* What each place of the driver says of the call that got there.
CallInv ==
    /\ Initialising => (caller = "user" <=> op = "init")
    /\ pc = "ocr" => op # "init"
    /\ pc = "csd" => op = "sectors"
    /\ Transferring => op \in {"read", "write"} /\ cs
    /\ pc = "data" => Len(done) < count

\* A card that answers is in the slot and has not been exchanged since it was
\* initialised: the sectors transferred so far are its own.
CardInv ==
    /\ mode # "power" => card # NoCard
    /\ Transferring =>
          /\ \A i, j \in DOMAIN done : done[i] = done[j]
          /\ mode = "ready" => \A i \in DOMAIN done : done[i] = card

\* How far an undisturbed call has brought the card: without one every CMD0
\* fails, with one the first succeeds.
CalmInv == calm =>
    /\ pc = "init" /\ tries > 0 => card = NoCard
    /\ pc = "acmd41" => mode # "power"
    /\ pc = "setup" \/ Transferring => mode = "ready"

IInv == TypeOK /\ CallInv /\ CardInv /\ CalmInv /\ BusReleased /\ OneCard

LEMMA InitLemma == Init => IInv
<1> SUFFICES ASSUME Init PROVE IInv
  OBVIOUS
<1> USE SdAssumption DEF Init
<1>1. TypeOK
  <2>1. cs \in BOOLEAN
    OBVIOUS
  <2> QED BY <2>1 DEF TypeOK, Ops, RES_OK, RES_ERROR, RES_NOTRDY, STA_NOINIT
<1>2. CallInv /\ CardInv /\ CalmInv /\ BusReleased /\ OneCard
  BY DEF CallInv, CardInv, CalmInv, BusReleased, OneCard, Initialising, Transferring
<1> QED BY <1>1, <1>2 DEF IInv

\* The cards that come and go.
LEMMA WorldLemma ==
    ASSUME IInv, Remove \/ \E c \in Cards : Insert(c)
    PROVE  IInv'
<1> USE SdAssumption DEF IInv, Remove, Insert, callVars
<1>1. TypeOK'
  BY DEF TypeOK
<1>2. CallInv'
  BY DEF CallInv, Initialising, Transferring
<1>3. CardInv'
  BY DEF TypeOK, CardInv, Transferring
<1>4. CalmInv'
  BY DEF CalmInv, Transferring
<1>5. BusReleased' /\ OneCard'
  BY DEF BusReleased, OneCard
<1> QED BY <1>1, <1>2, <1>3, <1>4, <1>5

LEMMA CallLemma ==
    ASSUME IInv, NEW o \in Ops, NEW n \in 0..MaxCount, Call(o, n)
    PROVE  IInv'
<1> USE SdAssumption DEF IInv, Call, cardVars
<1>1. TypeOK'
  BY DEF TypeOK
<1>2. CallInv'
  BY DEF CallInv, Initialising, Transferring
<1>3. CardInv'
  BY DEF TypeOK, CardInv, Transferring
<1>4. CalmInv'
  BY DEF CalmInv, Transferring
<1>5. BusReleased' /\ OneCard'
  BY DEF BusReleased, OneCard
<1> QED BY <1>1, <1>2, <1>3, <1>4, <1>5

\* SwapIsRecovered, as what one step has to do.
Recovered ==
    Returns /\ op # "sectors" /\ calm' => (result' = RES_OK <=> card # NoCard)

\* What the callers of StatusReturns and InitReturns have shown: in an
\* undisturbed call, stat tells whether there is a card.
Told(stat) ==
    calm' => IF stat = RES_OK THEN mode = "ready" ELSE card = NoCard

LEMMA StatusReturnsLemma ==
    ASSUME IInv, pc # "idle", op # "init", UNCHANGED cardVars, calm' \in BOOLEAN,
           sdcard_status' \in {RES_OK, STA_NOINIT},
           NEW stat \in {RES_OK, STA_NOINIT}, NEW selected \in BOOLEAN,
           Told(stat), StatusReturns(stat, selected)
    PROVE  IInv' /\ Recovered
<1> USE DEF StatusReturns, Finish, callVars, cardVars, RES_OK, RES_ERROR, RES_NOTRDY, STA_NOINIT
<1>1. TypeOK'
  <2>1. cs' \in BOOLEAN
    BY DEF IInv, TypeOK
  <2>2. result' \in {RES_OK, RES_ERROR, RES_NOTRDY}
    BY DEF IInv, TypeOK, Ops
  <2>3. /\ pc' \in {"idle", "init", "acmd41", "setup", "ocr", "block", "data", "csd"}
        /\ UNCHANGED <<op, count, caller, tries>>
        /\ done' = <<>> \/ done' = done
    BY DEF IInv, TypeOK
  <2>4. done' \in Seq(Cards) /\ Len(done') <= count'
    <3>1. <<>> \in Seq(Cards) /\ Len(<<>>) = 0
      OBVIOUS
    <3>2. done \in Seq(Cards) /\ Len(done) <= count /\ 0 <= count
      BY SdAssumption DEF IInv, TypeOK
    <3> QED BY <2>3, <3>1, <3>2, Zenon
  <2> QED BY <2>1, <2>2, <2>3, <2>4 DEF IInv, TypeOK
<1>2. CallInv'
  BY <1>1 DEF IInv, TypeOK, Ops, CallInv, Initialising, Transferring
<1>3. CardInv'
  BY DEF IInv, CardInv, Transferring
<1>4. CalmInv'
  BY DEF CalmInv, Transferring, Told
<1>5. BusReleased' /\ OneCard'
  BY DEF BusReleased, OneCard
<1>6. Recovered
  BY DEF IInv, TypeOK, Ops, CardInv, Recovered, Returns, Told
<1> QED BY <1>1, <1>2, <1>3, <1>4, <1>5, <1>6 DEF IInv

LEMMA InitReturnsLemma ==
    ASSUME IInv, Initialising, UNCHANGED cardVars, calm' \in BOOLEAN,
           NEW stat \in {RES_OK, STA_NOINIT}, NEW selected \in BOOLEAN,
           NEW stored \in {RES_OK, STA_NOINIT},
           Told(stat), InitReturns(stat, selected, stored)
    PROVE  IInv' /\ Recovered
<1>1. CASE caller = "retry"
  <2>1. sdcard_status' = stored /\ StatusReturns(stat, selected)
    BY <1>1 DEF InitReturns
  <2>2. op # "init" /\ pc # "idle"
    BY <1>1 DEF IInv, CallInv, Initialising
  <2> QED BY <2>1, <2>2, StatusReturnsLemma
<1>2. CASE caller # "retry"
  <2> USE <1>2 DEF InitReturns, Finish, callVars, cardVars, RES_OK, RES_ERROR, RES_NOTRDY, STA_NOINIT
  <2>1. TypeOK'
    BY DEF IInv, TypeOK
  <2>2. CallInv'
    BY DEF IInv, CallInv, Initialising, Transferring
  <2>3. CardInv'
    BY DEF IInv, CardInv, Transferring
  <2>4. CalmInv'
    BY DEF CalmInv, Transferring
  <2>5. BusReleased' /\ OneCard'
    BY DEF IInv, CallInv, BusReleased, OneCard, Initialising
  <2>6. Recovered
    BY DEF IInv, CardInv, Recovered, Returns, Told
  <2> QED BY <2>1, <2>2, <2>3, <2>4, <2>5, <2>6 DEF IInv
<1> QED BY <1>1, <1>2

-----------------------------------------------------------------------------
(* The steps of the driver.                                                  *)

LEMMA GoIdleLemma == IInv /\ GoIdle => IInv' /\ Recovered
<1> SUFFICES ASSUME IInv, GoIdle PROVE IInv' /\ Recovered
  OBVIOUS
<1> USE SdAssumption DEF GoIdle, Carries, Hears, callVars
<1>1. TypeOK'
  <2>1. cs' \in BOOLEAN
    BY DEF IInv, TypeOK
  <2> QED BY <2>1 DEF IInv, TypeOK, RES_OK, RES_ERROR, RES_NOTRDY, STA_NOINIT
<1>2. CallInv'
  BY DEF IInv, CallInv, Initialising, Transferring
<1>3. CardInv'
  BY DEF IInv, CardInv, Transferring
<1>4. CalmInv'
  BY DEF IInv, CalmInv, Transferring
<1>5. BusReleased' /\ OneCard' /\ Recovered
  BY DEF BusReleased, OneCard, Recovered, Returns
<1> QED BY <1>1, <1>2, <1>3, <1>4, <1>5 DEF IInv

LEMMA GiveUpLemma == IInv /\ GiveUp => IInv' /\ Recovered
<1> SUFFICES ASSUME IInv, GiveUp PROVE IInv' /\ Recovered
  OBVIOUS
<1>1. tries > 0 /\ cs \in BOOLEAN /\ sdcard_status \in {RES_OK, STA_NOINIT} /\ calm' \in BOOLEAN
  BY SdAssumption DEF IInv, TypeOK, GiveUp
<1>2. Told(STA_NOINIT)
  BY <1>1 DEF IInv, CalmInv, GiveUp, Told, RES_OK, STA_NOINIT
<1> QED BY <1>1, <1>2, InitReturnsLemma DEF GiveUp, Initialising

LEMMA StartInitLemma == IInv /\ StartInit => IInv' /\ Recovered
<1> SUFFICES ASSUME IInv, StartInit PROVE IInv' /\ Recovered
  OBVIOUS
<1> USE DEF StartInit, Hears, callVars
<1>1. TypeOK'
  BY DEF IInv, TypeOK
<1>2. CallInv' /\ CardInv' /\ CalmInv'
  BY DEF IInv, CallInv, CardInv, CalmInv, Initialising, Transferring
<1>3. BusReleased' /\ OneCard' /\ Recovered
  BY DEF BusReleased, OneCard, Recovered, Returns
<1> QED BY <1>1, <1>2, <1>3 DEF IInv

LEMMA SetUpLemma == IInv /\ SetUp => IInv' /\ Recovered
<1> SUFFICES ASSUME IInv, SetUp PROVE IInv' /\ Recovered
  OBVIOUS
<1>1. Told(RES_OK) /\ calm' \in BOOLEAN
  BY DEF IInv, TypeOK, CalmInv, SetUp, Told
<1> QED BY <1>1, InitReturnsLemma DEF SetUp, Initialising

LEMMA ReadOcrLemma == IInv /\ ReadOcr => IInv' /\ Recovered
<1> SUFFICES ASSUME IInv, ReadOcr PROVE IInv' /\ Recovered
  OBVIOUS
<1>1. PICK ok \in BOOLEAN : ReadOcr!2!(ok)
  BY DEF ReadOcr
<1>2. calm' \in BOOLEAN /\ op # "init" /\ pc = "ocr" /\ UNCHANGED cardVars
  BY <1>1 DEF IInv, TypeOK, CallInv, ReadOcr, Carries
<1>3. CASE ok
  <2>1. Told(RES_OK)
    BY <1>1, <1>3 DEF Carries, Told
  <2>2. sdcard_status' \in {RES_OK, STA_NOINIT}
    BY <1>1, <1>3 DEF IInv, TypeOK
  <2> QED BY <1>1, <1>2, <1>3, <2>1, <2>2, StatusReturnsLemma
<1>4. CASE ~ok
  <2>1. /\ cs' = FALSE /\ sdcard_status' = STA_NOINIT
        /\ pc' = "init" /\ caller' = "retry" /\ tries' = 0
        /\ UNCHANGED <<op, count, done, result>>
    BY <1>1, <1>4
  <2> USE SdAssumption, <1>2, <2>1 DEF cardVars
  <2>2. TypeOK'
    <3>1. cs' \in BOOLEAN
      OBVIOUS
    <3> QED BY <3>1 DEF IInv, TypeOK, RES_OK, RES_ERROR, RES_NOTRDY, STA_NOINIT
  <2>3. CallInv' /\ CardInv' /\ CalmInv'
    BY DEF IInv, CallInv, CardInv, CalmInv, Initialising, Transferring
  <2>4. BusReleased' /\ OneCard' /\ Recovered
    BY DEF BusReleased, OneCard, Recovered, Returns
  <2> QED BY <2>2, <2>3, <2>4 DEF IInv
<1> QED BY <1>3, <1>4

\* The end of a read or write: a success needs every sector, an error calm's end.
LEMMA BlocksEndLemma ==
    ASSUME IInv, Transferring, UNCHANGED <<cardVars, sdcard_status>>, calm' \in BOOLEAN,
           NEW res \in {RES_OK, RES_ERROR}, BlocksEnd(res),
           res = RES_OK => Len(done) = count,
           calm' => res = RES_OK /\ mode = "ready"
    PROVE  IInv' /\ Recovered
<1> USE DEF BlocksEnd, Finish, callVars, cardVars, RES_OK, RES_ERROR, RES_NOTRDY, STA_NOINIT
<1>1. TypeOK'
  <2>1. cs' \in BOOLEAN
    OBVIOUS
  <2> QED BY <2>1 DEF IInv, TypeOK
<1>2. CallInv' /\ CardInv' /\ CalmInv'
  BY DEF IInv, CallInv, CardInv, CalmInv, Initialising, Transferring
<1>3. OneCard' /\ BusReleased'
  <2>1. ASSUME res = RES_OK, count > 0
        PROVE  \E c \in Cards : \A i \in DOMAIN done : done[i] = c
    <3>1. 1 \in DOMAIN done /\ done[1] \in Cards
      BY <2>1 DEF IInv, TypeOK
    <3>2. \A i \in DOMAIN done : done[i] = done[1]
      BY <3>1 DEF IInv, CardInv
    <3> QED BY <3>1, <3>2
  <2> QED BY <2>1 DEF OneCard, BusReleased
<1>4. Recovered
  BY DEF IInv, CardInv, Recovered
<1> QED BY <1>1, <1>2, <1>3, <1>4 DEF IInv

\* A sector goes from or to the card that answered.
LEMMA TransferredLemma ==
    ASSUME IInv, pc = "data", mode = "ready", UNCHANGED <<cardVars, sdcard_status>>,
           calm' \in BOOLEAN, calm' => calm, Transferred(card)
    PROVE  IInv' /\ Recovered
<1> USE DEF Transferred, cardVars
<1>1. /\ card \in Cards /\ done \in Seq(Cards) /\ Len(done) < count
      /\ \A i \in DOMAIN done : done[i] = card
  BY DEF IInv, TypeOK, CallInv, CardInv, Transferring
<1>2. /\ done' \in Seq(Cards) /\ Len(done') = Len(done) + 1
      /\ \A i \in DOMAIN done' : done'[i] = card
  BY <1>1
<1>3. TypeOK'
  <2>1. Len(done') <= count'
    BY <1>1, <1>2 DEF IInv, TypeOK
  <2> QED BY <1>2, <2>1 DEF IInv, TypeOK
<1>4. CallInv' /\ CalmInv'
  BY DEF IInv, CallInv, CalmInv, Initialising, Transferring
<1>5. CardInv'
  BY <1>2 DEF IInv, CardInv
<1>6. BusReleased' /\ OneCard' /\ Recovered
  BY DEF BusReleased, OneCard, Recovered, Returns
<1> QED BY <1>3, <1>4, <1>5, <1>6 DEF IInv

LEMMA BlockLemma == IInv /\ Block => IInv' /\ Recovered
<1> SUFFICES ASSUME IInv, Block PROVE IInv' /\ Recovered
  OBVIOUS
<1>1. CASE Len(done) = count
  <2>1. BlocksEnd(RES_OK) /\ UNCHANGED calm
    BY <1>1 DEF Block, IInv, TypeOK
  <2>2. calm' => mode = "ready"
    BY <2>1 DEF Block, IInv, CalmInv, Transferring
  <2>3. calm' \in BOOLEAN
    BY <2>1 DEF IInv, TypeOK
  <2> QED BY <1>1, <2>1, <2>2, <2>3, BlocksEndLemma DEF Block, Transferring
<1>2. CASE Len(done) # count
  <2>1. PICK ok \in BOOLEAN :
          /\ Carries(Hears(cs) /\ mode = "ready", ok)
          /\ IF ok THEN pc' = "data" /\ UNCHANGED <<cs, callVars, tries, result>>
                   ELSE BlocksEnd(RES_ERROR)
    BY <1>2 DEF Block
  <2>2. calm' \in BOOLEAN
    BY <2>1 DEF IInv, TypeOK, Carries
  <2>3. calm' => calm /\ mode = "ready" /\ ok
    BY <2>1 DEF IInv, CalmInv, CardInv, CallInv, Carries, Hears, Block, Transferring
  <2>4. CASE ~ok
    BY <1>2, <2>1, <2>2, <2>3, <2>4, BlocksEndLemma DEF Block, Transferring, RES_OK, RES_ERROR
  <2>5. CASE ok
    <3> USE <2>1, <2>2, <2>5 DEF Block, cardVars, callVars
    <3>1. TypeOK'
      BY DEF IInv, TypeOK
    <3>2. CallInv'
      BY <1>2 DEF IInv, TypeOK, CallInv, Initialising, Transferring
    <3>3. CardInv' /\ CalmInv'
      BY <2>3 DEF IInv, CardInv, CalmInv, Transferring
    <3>4. BusReleased' /\ OneCard' /\ Recovered
      BY DEF BusReleased, OneCard, Recovered, Returns
    <3> QED BY <3>1, <3>2, <3>3, <3>4 DEF IInv
  <2> QED BY <2>4, <2>5
<1> QED BY <1>1, <1>2

LEMMA DataLemma == IInv /\ (ReadData \/ WriteData) => IInv' /\ Recovered
<1> SUFFICES ASSUME IInv, ReadData \/ WriteData PROVE IInv' /\ Recovered
  OBVIOUS
<1>1. pc = "data" /\ UNCHANGED <<cardVars, sdcard_status>>
  BY DEF ReadData, WriteData
<1>2. PICK ok \in BOOLEAN :
        /\ Carries(Hears(cs) /\ mode = "ready", ok)
        /\ IF ok THEN Transferred(card) ELSE BlocksEnd(RES_ERROR)
  BY DEF ReadData, WriteData
<1>3. calm' \in BOOLEAN /\ (calm' => calm) /\ (ok => mode = "ready")
  BY <1>2 DEF IInv, TypeOK, Carries
<1>4. calm' => ok
  BY <1>1, <1>2 DEF IInv, CalmInv, CardInv, CallInv, Carries, Hears, Transferring
<1>5. CASE ok
  BY <1>1, <1>2, <1>3, <1>5, TransferredLemma
<1>6. CASE ~ok
  BY <1>1, <1>2, <1>3, <1>4, <1>6, BlocksEndLemma DEF Transferring, RES_OK, RES_ERROR
<1> QED BY <1>5, <1>6

LEMMA SectorCountLemma == IInv /\ SectorCount => IInv' /\ Recovered
<1> SUFFICES ASSUME IInv, SectorCount PROVE IInv' /\ Recovered
  OBVIOUS
<1> USE DEF SectorCount, Carries, Finish, cardVars, callVars
<1>1. TypeOK'
  BY DEF IInv, TypeOK, RES_OK, RES_ERROR, RES_NOTRDY, STA_NOINIT
<1>2. CallInv' /\ CardInv' /\ CalmInv'
  BY DEF IInv, CallInv, CardInv, CalmInv, Initialising, Transferring
<1>3. BusReleased' /\ OneCard' /\ Recovered
  BY DEF IInv, CallInv, BusReleased, OneCard, Recovered
<1> QED BY <1>1, <1>2, <1>3 DEF IInv

-----------------------------------------------------------------------------
LEMMA StepLemma == IInv /\ [Next]_vars => IInv' /\ [Recovered]_vars
<1> SUFFICES ASSUME IInv, [Next]_vars PROVE IInv' /\ [Recovered]_vars
  OBVIOUS
<1>1. CASE Driver
  BY <1>1, GoIdleLemma, GiveUpLemma, StartInitLemma, SetUpLemma, ReadOcrLemma, BlockLemma,
     DataLemma, SectorCountLemma DEF Driver
<1>2. CASE Remove \/ \E c \in Cards : Insert(c)
  BY <1>2, WorldLemma DEF Remove, Insert, Recovered, Returns
<1>3. ASSUME NEW o \in Ops, NEW n \in 0..MaxCount, Call(o, n)
      PROVE  IInv' /\ Recovered
  BY <1>3, CallLemma DEF Call, Recovered, Returns
<1>4. CASE UNCHANGED vars
  <2> USE <1>4 DEF vars, cardVars, callVars
  <2>1. TypeOK' /\ CallInv' /\ CardInv' /\ CalmInv'
    BY DEF IInv, TypeOK, CallInv, CardInv, CalmInv, Initialising, Transferring
  <2>2. BusReleased' /\ OneCard'
    BY DEF IInv, BusReleased, OneCard
  <2> QED BY <2>1, <2>2 DEF IInv
<1>5. 1 \in 0..MaxCount /\ 1..MaxCount \subseteq 0..MaxCount
  BY SdAssumption
<1> QED BY <1>1, <1>2, <1>3, <1>4, <1>5 DEF Next, Ops

LEMMA InvLemma == Spec => []IInv
BY InitLemma, StepLemma, PTL DEF Spec

\* disk_read and disk_write release the card on every way out but the one that
\* never got to it (diskio.c).
THEOREM BusTheorem == Spec => []BusReleased
BY InvLemma, PTL DEF IInv

\* A success means all sectors, from or to one card, however cards are exchanged
\* during the call (diskio.c).
THEOREM OneCardTheorem == Spec => []OneCard
BY InvLemma, PTL DEF IInv

\* A call that nothing disturbs succeeds exactly if there is a card, in whatever
\* state earlier calls left the driver and the card (diskio.c).
THEOREM RecoveryTheorem == Spec => SwapIsRecovered
<1>1. [Recovered]_vars <=> [Returns /\ op # "sectors" /\ calm' =>
                              (result' = RES_OK <=> card # NoCard)]_vars
  BY DEF Recovered
<1> QED BY InitLemma, StepLemma, <1>1, PTL DEF Spec, SwapIsRecovered

-----------------------------------------------------------------------------
(* The clock: the month.                                                     *)

Fields == [bisecond : Int, minute : Int, hour : Int, day : Int, month : Int, year : Int]

\* The carries up to the day leave the month alone.
LEMMA TickLemma ==
    ASSUME NEW t \in Fields
    PROVE  Tick(t) \in Fields /\ Tick(t).month = t.month
<1> DEFINE b == (t.bisecond + 1) % 32
           m == (t.minute + IF b = 30 THEN 1 ELSE 0) % 64
           h == (t.hour + IF m = 60 THEN 1 ELSE 0) % 32
           d == (t.day + IF h = 24 THEN 1 ELSE 0) % 32
           b1 == IF b = 30 THEN 0 ELSE b
           m1 == IF m = 60 THEN 0 ELSE m
           h1 == IF h = 24 THEN 0 ELSE h
<1>1. b \in Int
  BY DEF Fields
<1>2. b1 \in Int
  BY <1>1
<1> HIDE DEF b
<1>3. m \in Int
  BY DEF Fields
<1>4. m1 \in Int
  BY <1>3
<1> HIDE DEF m
<1>5. h \in Int
  BY DEF Fields
<1>6. h1 \in Int
  BY <1>5
<1> HIDE DEF h
<1>7. d \in Int
  BY DEF Fields
<1>8. Tick(t) = [t EXCEPT !.bisecond = b1, !.minute = m1, !.hour = h1, !.day = d]
  BY DEF Tick, b, m, h
<1> HIDE DEF b1, m1, h1, d
<1> QED
  BY <1>2, <1>4, <1>6, <1>7, <1>8 DEF Fields

\* The small numbers below have names, hidden once typed, so that the solver
\* treats them as any integer stored in a field.
LEMMA FebruaryLemma ==
    ASSUME NEW t \in Fields, t.month = 2
    PROVE  February(t) \in Fields /\ February(t).month \in {2, 3}
<1> DEFINE d27 == t.day - 27
           d28 == t.day - 28
           march == 3
           century == [t EXCEPT !.day = d27, !.month = march]
           leap == [t EXCEPT !.day = d28, !.month = march]
<1>1. d27 \in Int /\ d28 \in Int /\ march \in {2, 3} /\ march \in Int
  BY DEF Fields
<1>2. February(t) \in {t, century, leap}
  BY DEF February
<1> HIDE DEF d27, d28, march
<1>3. century \in Fields /\ century.month = march
  BY <1>1 DEF Fields
<1>4. leap \in Fields /\ leap.month = march
  BY <1>1 DEF Fields
<1> HIDE DEF century, leap
<1> QED
  BY <1>1, <1>2, <1>3, <1>4

\* The end of a month keeps the fields numbers, and counts the month up at most once.
LEMMA MonthEndLemma ==
    ASSUME NEW t \in Fields
    PROVE  MonthEnd(t) \in Fields /\ MonthEnd(t).month \in {t.month, (t.month + 1) % 16}
<1> DEFINE m == (t.month + 1) % 16
           first == 1
           next == [t EXCEPT !.day = first, !.month = m]
<1>1. m \in Int /\ first \in Int
  BY DEF Fields
<1>2. CASE t.month = 2
  <2>1. MonthEnd(t) = February(t)
    BY <1>2 DEF MonthEnd
  <2>2. m = 3
    BY <1>2
  <2> QED
    BY <1>2, <2>1, <2>2, FebruaryLemma
<1>3. CASE t.month # 2
  <2>1. MonthEnd(t) \in {t, next}
    BY <1>3 DEF MonthEnd
  <2> HIDE DEF m, first
  <2>2. next \in Fields /\ next.month = m
    BY <1>1 DEF Fields
  <2> HIDE DEF next
  <2> QED
    BY <2>1, <2>2 DEF m
<1> QED
  BY <1>2, <1>3

\* A tick keeps the fields numbers, and a month that has a name.
LEMMA AdvanceLemma ==
    ASSUME NEW t \in Fields
    PROVE  /\ advance_fattime(t) \in Fields
           /\ t.month \in 1..12 => advance_fattime(t).month \in 1..12
<1> DEFINE u == MonthEnd(Tick(t))
           january == 1
           y == (u.year + 1) % 128
           next == [u EXCEPT !.month = january, !.year = y]
<1>1. u \in Fields /\ u.month \in {t.month, (t.month + 1) % 16}
  BY TickLemma, MonthEndLemma
<1>2. advance_fattime(t) = IF u.month = 13 THEN next ELSE u
  BY DEF advance_fattime
<1> HIDE DEF u
<1>3. y \in Int /\ january \in 1..12 /\ january \in Int
  BY <1>1 DEF Fields
<1> HIDE DEF y, january
<1>4. next \in Fields /\ next.month = january
  BY <1>1, <1>3 DEF Fields
<1> HIDE DEF next
<1>5. t.month \in 1..12 => u.month \in 1..13
  <2> DEFINE k == t.month
  <2>1. k \in 1..12 => k \in 1..13 /\ (k + 1) % 16 \in 1..13
    OBVIOUS
  <2> QED BY <1>1, <2>1
<1> QED
  BY <1>1, <1>2, <1>3, <1>4, <1>5

\* What date stores, from any digits.
LEMMA SetLemma ==
    ASSUME NEW y \in Int, NEW mo \in Int, NEW d \in Int, NEW h \in Int, NEW mi \in Int, NEW s \in Int
    PROVE  set_fattime(y, mo, d, h, mi, s) \in Fields
BY DEF set_fattime, Fields

\* Whatever else the user's digits say and however long the clock runs, a month
\* that has a name is followed by one that has (sdcard.c:51, 187).
THEOREM MonthTheorem == ClockSpec => MonthStaysNamed
<1> DEFINE Inv == fattime \in Fields
<1>1. ClockInit => Inv
  BY DEF ClockInit, Fields
<1>2. Inv /\ [ClockNext]_clockVars => Inv'
  <2> SUFFICES ASSUME Inv, [ClockNext]_clockVars PROVE Inv'
    OBVIOUS
  <2>1. CASE date
    <3>1. PICK y \in Years, mo \in Months, d \in Days, h \in Hours, mi \in Minutes, s \in Seconds :
              fattime' = set_fattime(y, mo, d, h, mi, s)
      BY <2>1 DEF date
    <3>2. y \in Int /\ mo \in Int /\ d \in Int /\ h \in Int /\ mi \in Int /\ s \in Int
      BY ClockAssumption
    <3> QED BY <3>1, <3>2, SetLemma
  <2>2. CASE Advance
    BY <2>2, AdvanceLemma DEF Advance
  <2>3. CASE UNCHANGED clockVars
    BY <2>3 DEF clockVars
  <2> QED
    BY <2>1, <2>2, <2>3 DEF ClockNext
<1>3. Inv /\ [ClockNext]_clockVars =>
        [Advance /\ fattime.month \in 1..12 => fattime'.month \in 1..12]_clockVars
  BY AdvanceLemma DEF Advance
<1> QED
  BY <1>1, <1>2, <1>3, PTL DEF ClockSpec, MonthStaysNamed

-----------------------------------------------------------------------------
(* The time of day.                                                          *)

\* A time as it is stored.
Stored(b, m, h, d, mo, y) ==
    [bisecond |-> b, minute |-> m, hour |-> h, day |-> d, month |-> mo, year |-> y]

\* Two stored times are equal field by field.
LEMMA StoredLemma ==
    ASSUME NEW b, NEW m, NEW h, NEW d, NEW mo, NEW y,
           NEW b1, NEW m1, NEW h1, NEW d1, NEW mo1, NEW y1
    PROVE  Stored(b, m, h, d, mo, y) = Stored(b1, m1, h1, d1, mo1, y1)
             <=> b = b1 /\ m = m1 /\ h = h1 /\ d = d1 /\ mo = mo1 /\ y = y1
BY DEF Stored

InDay(s) == s < 24 * 3600

HourSet == 0..23
MinuteSet == 0..59
BisecondSet == 0..29
Odd == 0..1

SecondOf(h, m, b, o) == 3600 * h + 60 * m + 2 * b + o

TimeOfDay(s) ==
    \E h \in HourSet, m \in MinuteSet, b \in BisecondSet, o \in Odd : s = SecondOf(h, m, b, o)

\* HourSet, minutes, bi-seconds and an odd second make a time of day.
LEMMA PartsLemma ==
    ASSUME NEW hour \in HourSet, NEW minute \in MinuteSet, NEW two \in BisecondSet, NEW one \in Odd
    PROVE  TimeOfDay(SecondOf(hour, minute, two, one))
BY DEF TimeOfDay

\* Every second of a day has such parts.
LEMMA SecondsLemma ==
    ASSUME NEW s \in Nat, InDay(s)
    PROVE  TimeOfDay(s)
<1> DEFINE hour == s \div 3600
           r == s - 3600 * hour
           minute == r \div 60
           q == r - 60 * minute
           two == q \div 2
           one == q - 2 * two
<1>1. hour \in HourSet /\ r \in 0..3599
  BY DEF InDay, HourSet
<1>2. s = 3600 * hour + r
  OBVIOUS
<1> HIDE DEF hour, r
<1>3. minute \in MinuteSet /\ q \in MinuteSet /\ r = 60 * minute + q
  BY <1>1 DEF MinuteSet
<1> HIDE DEF minute, q
<1>4. two \in BisecondSet /\ one \in Odd /\ q = 2 * two + one
  BY <1>3 DEF MinuteSet, BisecondSet, Odd
<1> HIDE DEF two, one
<1>5. s = SecondOf(hour, minute, two, one)
  BY <1>1, <1>2, <1>3, <1>4 DEF SecondOf, HourSet, MinuteSet, BisecondSet, Odd
<1>6. hour \in HourSet /\ minute \in MinuteSet /\ two \in BisecondSet /\ one \in Odd
  BY <1>1, <1>3, <1>4
<1>7. TimeOfDay(SecondOf(hour, minute, two, one))
  BY <1>6, PartsLemma
<1> QED BY <1>5, <1>7

\* The hour of a second.
LEMMA HourLemma ==
    ASSUME NEW s \in Nat, NEW h \in Nat, 3600 * h <= s, s < 3600 * h + 3600
    PROVE  s \div 3600 = h
OBVIOUS

\* The fields that are stored of a second are its parts.
LEMMA DivLemma ==
    ASSUME NEW h \in HourSet, NEW m \in MinuteSet, NEW b \in BisecondSet, NEW o \in Odd
    PROVE  LET s == 3600 * h + 60 * m + 2 * b + o
           IN  /\ s \in Nat /\ s < 24 * 3600
               /\ (s \div 3600) % 32 = h /\ ((s \div 60) % 60) % 64 = m /\ ((s % 60) \div 2) % 32 = b
<1> USE DEF HourSet, MinuteSet, BisecondSet, Odd
<1> DEFINE s == 3600 * h + 60 * m + 2 * b + o
           r == 2 * b + o
<1>1. r \in MinuteSet /\ r \div 2 = b
  OBVIOUS
<1>2. s = 60 * (60 * h + m) + r
  OBVIOUS
<1>3. 60 * h + m \in 0..1439
  OBVIOUS
<1> HIDE DEF r, s
<1> DEFINE n == 60 * h + m
<1>4. n \div 60 = h /\ n % 60 = m
  OBVIOUS
<1>5. s \in Nat /\ s < 24 * 3600
  BY <1>1, <1>2, <1>3
<1> HIDE DEF n
<1>6. s = 60 * n + r /\ n \in 0..1439
  BY <1>2, <1>3 DEF n
<1>7. s \div 60 = n /\ s % 60 = r
  BY <1>1, <1>6
<1>8. s \div 3600 = h
  <2> DEFINE e == 60 * m + r
  <2>1. 3600 * h + e = s
    BY <1>6, <1>1 DEF n
  <2>2. e \in 0..3599
    BY <1>1
  <2> HIDE DEF e
  <2>3. 3600 * h <= s /\ s < 3600 * h + 3600
    BY <2>1, <2>2
  <2> QED BY <1>5, <2>3, HourLemma
<1> QED BY <1>1, <1>4, <1>5, <1>7, <1>8 DEF s

\* The year as it is stored, and the years for which that is enough.
YearField(y) == (y - 1980) % 128
YearFields == 0..127
YearAfter(z) == (z + 1) % 128
LeapField(z) == Leap(z + 1980)
FatYear(y) == 1980 <= y /\ y <= 2107

\* For 128 years the stored year, its successor and its leap years are the calendar's.
LEMMA YearLemma ==
    ASSUME NEW y \in Nat, FatYear(y)
    PROVE  /\ YearField(y) \in YearFields
           /\ YearAfter(YearField(y)) = YearField(y + 1)
           /\ LeapField(YearField(y)) <=> Leap(y)
<1>1. YearField(y) = y - 1980 /\ YearField(y + 1) = (y - 1979) % 128
  BY DEF FatYear, YearField
<1> QED BY <1>1 DEF FatYear, YearFields, YearAfter, LeapField

\* A moment of the calendar, and what is stored of it.
Day(y, mo, d) == y \in Nat /\ 1980 <= y /\ mo \in 1..12 /\ d \in 1..31 /\ d <= DaysIn(y, mo)
At(y, mo, d, s) == [year |-> y, month |-> mo, day |-> d, sec |-> s]

\* What is stored of a moment.
LEMMA StampedLemma ==
    ASSUME NEW y, NEW mo \in 1..12, NEW d \in 1..31,
           NEW h \in HourSet, NEW m \in MinuteSet, NEW b \in BisecondSet, NEW o \in Odd
    PROVE  Stamp(At(y, mo, d, SecondOf(h, m, b, o))) = Stored(b, m, h, d, mo, YearField(y))
<1> DEFINE s == SecondOf(h, m, b, o)
           y1 == YearField(y)
<1>1. (s \div 3600) % 32 = h /\ ((s \div 60) % 60) % 64 = m /\ ((s % 60) \div 2) % 32 = b
  BY DivLemma DEF SecondOf
<1> HIDE DEF s
<1>2. d % 32 = d /\ mo % 16 = mo
  OBVIOUS
<1>3. Stamp(At(y, mo, d, s))
        = [bisecond |-> ((s % 60) \div 2) % 32, minute |-> ((s \div 60) % 60) % 64,
           hour |-> (s \div 3600) % 32, day |-> d % 32, month |-> mo % 16, year |-> y1]
  BY DEF Stamp, set_fattime, At, YearField
<1> HIDE DEF y1
<1>4. Stamp(At(y, mo, d, s)) = Stored(b, m, h, d, mo, y1)
  BY <1>1, <1>2, <1>3 DEF Stored
<1> QED BY <1>4 DEF s, y1

\* One tick of the clock's time of day.
LEMMA CarryLemma ==
    ASSUME NEW h \in HourSet, NEW m \in MinuteSet, NEW b \in BisecondSet, NEW d \in 1..31, NEW mo, NEW y
    PROVE  /\ b < 29 => Tick(Stored(b, m, h, d, mo, y)) = Stored(b + 1, m, h, d, mo, y)
           /\ b = 29 /\ m < 59 => Tick(Stored(b, m, h, d, mo, y)) = Stored(0, m + 1, h, d, mo, y)
           /\ b = 29 /\ m = 59 /\ h < 23 => Tick(Stored(b, m, h, d, mo, y)) = Stored(0, 0, h + 1, d, mo, y)
           /\ b = 29 /\ m = 59 /\ h = 23 =>
                Tick(Stored(b, m, h, d, mo, y)) = Stored(0, 0, 0, (d + 1) % 32, mo, y)
<1> USE DEF HourSet, MinuteSet, BisecondSet, Odd
<1> DEFINE b1 == (b + 1) % 32
           m1 == (m + IF b1 = 30 THEN 1 ELSE 0) % 64
           h1 == (h + IF m1 = 60 THEN 1 ELSE 0) % 32
           d1 == (d + IF h1 = 24 THEN 1 ELSE 0) % 32
           b2 == IF b1 = 30 THEN 0 ELSE b1
           m2 == IF m1 = 60 THEN 0 ELSE m1
           h2 == IF h1 = 24 THEN 0 ELSE h1
<1>1. Tick(Stored(b, m, h, d, mo, y)) = Stored(b2, m2, h2, d1, mo, y)
  <2> DEFINE t == Stored(b, m, h, d, mo, y)
  <2>1. t.bisecond = b /\ t.minute = m /\ t.hour = h /\ t.day = d
    BY DEF Stored
  <2>2. Tick(t) = [t EXCEPT !.bisecond = b2, !.minute = m2, !.hour = h2, !.day = d1]
    <3> HIDE DEF t
    <3> QED BY <2>1 DEF Tick
  <2> HIDE DEF b2, m2, h2, d1
  <2> QED BY <2>2 DEF Stored
<1>2. b1 = b + 1
  OBVIOUS
<1> HIDE DEF b1
<1>3. /\ b < 29 => b2 = b + 1 /\ m1 = m
      /\ b = 29 => b2 = 0 /\ m1 = m + 1
  BY <1>2
<1>4. m1 \in 0..60
  BY <1>3
<1> HIDE DEF m1, b2
<1>5. /\ m1 < 60 => m2 = m1 /\ h1 = h
      /\ m1 = 60 => m2 = 0 /\ h1 = h + 1
  BY <1>4
<1> HIDE DEF h1, m2
<1>6. /\ h1 < 24 => h2 = h1 /\ d1 = d
      /\ h1 = 24 => h2 = 0 /\ d1 = (d + 1) % 32
  <2>1. h1 \in 0..24
    BY <1>4, <1>5
  <2>2. d % 32 = d
    OBVIOUS
  <2> QED BY <2>1, <2>2
<1> HIDE DEF d1, h2
<1>7. /\ b < 29 => b2 = b + 1 /\ m2 = m /\ h2 = h /\ d1 = d
      /\ b = 29 /\ m < 59 => b2 = 0 /\ m2 = m + 1 /\ h2 = h /\ d1 = d
      /\ b = 29 /\ m = 59 /\ h < 23 => b2 = 0 /\ m2 = 0 /\ h2 = h + 1 /\ d1 = d
      /\ b = 29 /\ m = 59 /\ h = 23 => b2 = 0 /\ m2 = 0 /\ h2 = 0 /\ d1 = (d + 1) % 32
  BY <1>3, <1>4, <1>5, <1>6
<1> QED BY <1>1, <1>7

\* What advance_fattime does after the carries.
Settled(t) ==
    LET u == MonthEnd(t)
    IN  IF u.month = 13 THEN [u EXCEPT !.month = 1, !.year = (@ + 1) % 128] ELSE u

NextMonth(t) == [t EXCEPT !.day = 1, !.month = @ + 1]
Over(t, n) == [t EXCEPT !.day = @ - n, !.month = 3]
NextYear(t) == [t EXCEPT !.month = 1, !.year = (@ + 1) % 128]

\* The fields of a stored time.
LEMMA FieldsLemma ==
    ASSUME NEW b, NEW m, NEW h, NEW d, NEW mo, NEW y
    PROVE  LET t == Stored(b, m, h, d, mo, y)
           IN  /\ t.day = d /\ t.month = mo /\ t.year = y
               /\ NextMonth(t) = Stored(b, m, h, 1, mo + 1, y)
               /\ \A n : Over(t, n) = Stored(b, m, h, d - n, 3, y)
               /\ NextYear(t) = Stored(b, m, h, d, 1, YearAfter(y))
<1> DEFINE t == Stored(b, m, h, d, mo, y)
           one == 1
           three == 3
           mo1 == t.month + 1
           y1 == (t.year + 1) % 128
<1>1. t.day = d /\ t.month = mo /\ t.year = y
  BY DEF Stored
<1>2. NextMonth(t) = [t EXCEPT !.day = one, !.month = mo1]
  BY DEF NextMonth
<1>3. NextYear(t) = [t EXCEPT !.month = one, !.year = y1]
  BY DEF NextYear
<1>4. mo1 = mo + 1 /\ y1 = YearAfter(y)
  BY <1>1 DEF YearAfter
<1> HIDE DEF one, mo1, y1
<1>5. NextMonth(t) = Stored(b, m, h, one, mo1, y)
  BY <1>2 DEF Stored
<1>6. NextYear(t) = Stored(b, m, h, d, one, y1)
  BY <1>3 DEF Stored
<1>7. ASSUME NEW n PROVE Over(t, n) = Stored(b, m, h, d - n, 3, y)
  <2> DEFINE d1 == t.day - n
  <2>1. Over(t, n) = [t EXCEPT !.day = d1, !.month = three]
    BY DEF Over
  <2>2. d1 = d - n
    BY <1>1
  <2> HIDE DEF d1, three
  <2>3. Over(t, n) = Stored(b, m, h, d1, three, y)
    BY <2>1 DEF Stored
  <2> QED BY <2>2, <2>3 DEF three
<1>8. NextMonth(t) = Stored(b, m, h, 1, mo + 1, y)
  BY <1>4, <1>5 DEF one
<1>9. NextYear(t) = Stored(b, m, h, d, 1, YearAfter(y))
  BY <1>4, <1>6 DEF one
<1> QED BY <1>1, <1>7, <1>8, <1>9

\* The carry into the year.
LEMMA YearEndLemma ==
    ASSUME NEW b, NEW m, NEW h, NEW d, NEW mo, NEW y, NEW t, MonthEnd(t) = Stored(b, m, h, d, mo, y)
    PROVE  Settled(t) = IF mo = 13 THEN Stored(b, m, h, d, 1, YearAfter(y))
                        ELSE Stored(b, m, h, d, mo, y)
<1> DEFINE u == MonthEnd(t)
<1>1. Settled(t) = IF u.month = 13 THEN NextYear(u) ELSE u
  BY DEF Settled, NextYear
<1>2. u.month = mo /\ NextYear(u) = Stored(b, m, h, d, 1, YearAfter(y))
  BY FieldsLemma
<1> QED BY <1>1, <1>2

Short == {4, 6, 9, 10}
Long == {1, 3, 5, 7, 8, 11, 12}

\* The months of thirty days that advance_fattime knows ...
LEMMA ThirtyLemma ==
    ASSUME NEW b, NEW m, NEW h, NEW d \in 0..31, NEW mo \in Short, NEW y
    PROVE  Settled(Stored(b, m, h, d, mo, y)) = IF d = 31 THEN Stored(b, m, h, 1, mo + 1, y)
                                                ELSE Stored(b, m, h, d, mo, y)
<1> DEFINE t == Stored(b, m, h, d, mo, y)
           next == NextMonth(t)
<1>1. t.day = d /\ t.month = mo /\ next = Stored(b, m, h, 1, mo + 1, y)
  BY FieldsLemma
<1>2. MonthEnd(t) = IF t.day = 31 THEN next ELSE t
  <2>1. t.month # 2 /\ t.month \in {9, 4, 6, 10}
    BY <1>1 DEF Short
  <2>2. (t.month + 1) % 16 = t.month + 1
    BY <1>1 DEF Short
  <2> HIDE DEF t
  <2> QED BY <2>1, <2>2 DEF MonthEnd, NextMonth
<1> HIDE DEF next
<1>3. CASE d = 31
  <2>1. MonthEnd(t) = Stored(b, m, h, 1, mo + 1, y)
    BY <1>1, <1>2, <1>3
  <2>2. mo + 1 # 13
    BY DEF Short
  <2> QED BY <1>3, <2>1, <2>2, YearEndLemma
<1>4. CASE d # 31
  <2>1. MonthEnd(t) = Stored(b, m, h, d, mo, y)
    BY <1>1, <1>2, <1>4
  <2>2. mo # 13
    BY DEF Short
  <2> QED BY <1>4, <2>1, <2>2, YearEndLemma
<1> QED BY <1>3, <1>4

\* ... those it takes for months of 31, November among them ...
LEMMA LongMonthLemma ==
    ASSUME NEW b, NEW m, NEW h, NEW d, NEW mo \in Long, NEW y
    PROVE  MonthEnd(Stored(b, m, h, d, mo, y)) = IF d = 0 THEN Stored(b, m, h, 1, mo + 1, y)
                                                 ELSE Stored(b, m, h, d, mo, y)
<1> DEFINE t == Stored(b, m, h, d, mo, y)
           next == NextMonth(t)
<1>1. t.day = d /\ t.month = mo /\ next = Stored(b, m, h, 1, mo + 1, y)
  BY FieldsLemma
<1>2. MonthEnd(t) = IF t.day = 0 THEN next ELSE t
  <2>1. t.month \notin {2, 9, 4, 6, 10}
    BY <1>1 DEF Long
  <2>2. (t.month + 1) % 16 = t.month + 1
    BY <1>1 DEF Long
  <2> HIDE DEF t
  <2> QED BY <2>1, <2>2 DEF MonthEnd, NextMonth
<1> HIDE DEF next
<1> QED BY <1>1, <1>2

\* ... which stay as they are but for the day 0 ...
LEMMA LongDayLemma ==
    ASSUME NEW b, NEW m, NEW h, NEW d, NEW mo \in Long, NEW y, d # 0
    PROVE  Settled(Stored(b, m, h, d, mo, y)) = Stored(b, m, h, d, mo, y)
<1>1. MonthEnd(Stored(b, m, h, d, mo, y)) = Stored(b, m, h, d, mo, y)
  BY LongMonthLemma
<1>2. mo # 13
  BY DEF Long
<1> QED BY <1>1, <1>2, YearEndLemma

\* ... and go on to the next month from it ...
LEMMA LongEndLemma ==
    ASSUME NEW b, NEW m, NEW h, NEW mo \in Long, NEW y
    PROVE  Settled(Stored(b, m, h, 0, mo, y)) = IF mo = 12 THEN Stored(b, m, h, 1, 1, YearAfter(y))
                                                ELSE Stored(b, m, h, 1, mo + 1, y)
<1>1. MonthEnd(Stored(b, m, h, 0, mo, y)) = Stored(b, m, h, 1, mo + 1, y)
  BY LongMonthLemma
<1>2. mo + 1 = 13 <=> mo = 12
  BY DEF Long
<1> QED BY <1>1, <1>2, YearEndLemma

\* ... and February: the 29th may not be left, the 30th is as far as a leap year gets.
LEMMA FebruaryDayLemma ==
    ASSUME NEW b, NEW m, NEW h, NEW d \in 1..30, NEW y \in YearFields
    PROVE  LET t == Stored(b, m, h, d, 2, y)
           IN  /\ d < 29 => Settled(t) = t
               /\ d = 29 /\ LeapField(y) => Settled(t) = t
               /\ d = 29 => Settled(t) \in {t, Stored(b, m, h, 2, 3, y)}
               /\ d = 30 /\ LeapField(y) => Settled(t) = Stored(b, m, h, 2, 3, y)
<1> DEFINE t == Stored(b, m, h, d, 2, y)
           over(n) == Over(t, n)
           year == y + 1980
<1>1. t.day = d /\ t.month = 2 /\ t.year = y /\ \A n : over(n) = Stored(b, m, h, d - n, 3, y)
  BY FieldsLemma
<1>2. MonthEnd(t) = February(t)
  <2> HIDE DEF t
  <2> QED BY <1>1 DEF MonthEnd
<1> DEFINE early == t.day < 29
           century == t.day >= 29 /\ (t.year + 1980) % 1000 # 0 /\ (t.year + 1980) % 100 = 0
           leap == /\ t.day > 29
                   /\ \/ (t.year + 1980) % 1000 = 0
                      \/ (t.year + 1980) % 100 # 0 /\ (t.year + 1980) % 4 = 0
<1>3. February(t) = CASE early -> t [] century -> over(27) [] leap -> over(28) [] OTHER -> t
  BY DEF February, Over
<1>4. /\ early <=> d < 29
      /\ century <=> d >= 29 /\ year % 1000 # 0 /\ year % 100 = 0
      /\ leap <=> d > 29 /\ (year % 1000 = 0 \/ (year % 100 # 0 /\ year % 4 = 0))
  BY <1>1
<1> HIDE DEF early, century, leap
<1>5. Leap(year) => (year % 1000 = 0 \/ year % 100 # 0) /\ year % 4 = 0
  BY DEF Leap, YearFields
<1>6. over(27) = Stored(b, m, h, d - 27, 3, y) /\ over(28) = Stored(b, m, h, d - 28, 3, y)
  BY <1>1
<1> HIDE DEF over, year
<1>7. CASE d < 29
  <2>1. MonthEnd(t) = Stored(b, m, h, d, 2, y)
    BY <1>2, <1>3, <1>7, <1>4
  <2> QED BY <1>7, <2>1, YearEndLemma
<1>8. CASE d = 29
  <2>1. d - 27 = 2 /\ ~(d < 29) /\ ~(d > 29)
    BY <1>8
  <2>2. MonthEnd(t) = t \/ (~Leap(year) /\ MonthEnd(t) = over(27))
    BY <1>2, <1>3, <1>5, <1>4, <2>1
  <2>3. CASE MonthEnd(t) = t
    BY <1>8, <2>3, YearEndLemma
  <2>4. CASE ~Leap(year) /\ MonthEnd(t) = over(27)
    <3>1. MonthEnd(t) = Stored(b, m, h, 2, 3, y)
      BY <1>6, <2>1, <2>4
    <3>2. Settled(t) = Stored(b, m, h, 2, 3, y)
      BY <3>1, YearEndLemma
    <3> QED BY <1>8, <2>4, <3>2 DEF year, LeapField
  <2> QED BY <2>2, <2>3, <2>4
<1>9. CASE d = 30
  <2>1. d - 28 = 2 /\ ~(d < 29) /\ d > 29
    BY <1>9
  <2>2. Leap(year) => MonthEnd(t) = over(28)
    BY <1>2, <1>3, <1>5, <1>4, <2>1
  <2>3. Leap(year) => MonthEnd(t) = Stored(b, m, h, 2, 3, y)
    BY <1>6, <2>1, <2>2
  <2>4. Leap(year) => Settled(t) = Stored(b, m, h, 2, 3, y)
    BY <2>3, YearEndLemma
  <2> QED BY <1>9, <2>4 DEF year, LeapField
<1> QED BY <1>7, <1>8, <1>9

\* A day of the calendar stays itself, but 31 October.
LEMMA SameDayLemma ==
    ASSUME NEW b, NEW m, NEW h, NEW y \in Nat, FatYear(y), NEW mo \in 1..12, NEW d \in 1..31,
           d <= DaysIn(y, mo)
    PROVE  Settled(Stored(b, m, h, d, mo, YearField(y))) = Stored(b, m, h, d, mo, YearField(y))
             <=> ~(mo = 10 /\ d = 31)
<1> DEFINE z == YearField(y)
<1>1. z \in YearFields /\ d \in 0..31 /\ (LeapField(z) <=> Leap(y))
  BY YearLemma
<1> HIDE DEF z
<1>2. CASE mo = 2
  <2>1. d < 29 \/ (d = 29 /\ Leap(y))
    BY <1>2 DEF DaysIn
  <2>2. d \in 1..30
    BY <2>1
  <2>3. Settled(Stored(b, m, h, d, 2, z)) = Stored(b, m, h, d, 2, z)
    BY <1>1, <2>1, <2>2, FebruaryDayLemma
  <2> QED BY <1>2, <2>3 DEF z
<1>3. CASE mo \in Short
  <2>1. d = 31 => mo = 10
    BY <1>3 DEF DaysIn, Short
  <2>2. Settled(Stored(b, m, h, d, mo, z)) = IF d = 31 THEN Stored(b, m, h, 1, mo + 1, z)
                                             ELSE Stored(b, m, h, d, mo, z)
    BY <1>1, <1>3, ThirtyLemma
  <2>3. d = 31 => Stored(b, m, h, 1, mo + 1, z) # Stored(b, m, h, d, mo, z)
    BY StoredLemma
  <2> QED BY <2>1, <2>2, <2>3 DEF z
<1>4. CASE mo \in Long
  <2>1. d # 0
    OBVIOUS
  <2>2. Settled(Stored(b, m, h, d, mo, z)) = Stored(b, m, h, d, mo, z)
    BY <1>4, <2>1, LongDayLemma
  <2>3. mo # 10
    BY <1>4 DEF Long
  <2> QED BY <2>3, <2>2 DEF z
<1> QED BY <1>2, <1>3, <1>4 DEF Short, Long

\* At midnight.
LEMMA NextDayLemma ==
    ASSUME NEW b, NEW m, NEW h, NEW y \in Nat, FatYear(y), NEW mo \in 1..12, NEW d \in 1..31,
           d <= DaysIn(y, mo)
    PROVE  LET u == Settled(Stored(b, m, h, (d + 1) % 32, mo, YearField(y)))
               wrong == <<mo, d>> \in {<<2, DaysIn(y, 2)>>, <<10, 30>>, <<10, 31>>, <<11, 30>>}
           IN  /\ d < DaysIn(y, mo) =>
                    (u = Stored(b, m, h, d + 1, mo, YearField(y)) <=> ~wrong)
               /\ d = DaysIn(y, mo) /\ mo < 12 =>
                    (u = Stored(b, m, h, 1, mo + 1, YearField(y)) <=> ~wrong)
               /\ d = DaysIn(y, mo) /\ mo = 12 =>
                    (u = Stored(b, m, h, 1, 1, YearField(y + 1)) <=> ~wrong)
<1> DEFINE z == YearField(y)
           e == (d + 1) % 32
           u == Settled(Stored(b, m, h, e, mo, z))
           wrong == <<mo, d>> \in {<<2, DaysIn(y, 2)>>, <<10, 30>>, <<10, 31>>, <<11, 30>>}
<1>1. z \in YearFields /\ (LeapField(z) <=> Leap(y)) /\ YearAfter(z) = YearField(y + 1)
  BY YearLemma
<1>2. /\ d < 31 => e = d + 1
      /\ d = 31 => e = 0
      /\ e \in 0..31
  OBVIOUS
<1> HIDE DEF z, e
<1> SUFFICES /\ d < DaysIn(y, mo) => (u = Stored(b, m, h, d + 1, mo, z) <=> ~wrong)
             /\ d = DaysIn(y, mo) /\ mo < 12 => (u = Stored(b, m, h, 1, mo + 1, z) <=> ~wrong)
             /\ d = DaysIn(y, mo) /\ mo = 12 => (u = Stored(b, m, h, 1, 1, YearAfter(z)) <=> ~wrong)
  BY <1>1 DEF z, e
<1>3. CASE mo = 2
  <2>1. DaysIn(y, 2) = (IF Leap(y) THEN 29 ELSE 28) /\ d <= 29 /\ e = d + 1
    BY <1>2, <1>3 DEF DaysIn
  <2>2. CASE d < DaysIn(y, 2)
    <3>1. e < 29 \/ (e = 29 /\ Leap(y))
      BY <2>1, <2>2
    <3>2. u = Stored(b, m, h, e, 2, z)
      BY <1>1, <1>2, <1>3, <2>1, <3>1, FebruaryDayLemma
    <3>3. ~wrong
      BY <1>3, <2>2
    <3> QED BY <1>3, <2>1, <2>2, <3>2, <3>3
  <2>3. CASE d = DaysIn(y, 2)
    <3>1. (e = 29 /\ ~Leap(y)) \/ (e = 30 /\ Leap(y))
      BY <2>1, <2>3
    <3>2. e \in 1..30
      BY <3>1
    <3>3. u \in {Stored(b, m, h, e, 2, z), Stored(b, m, h, 2, 3, z)}
      BY <1>1, <1>3, <3>1, <3>2, FebruaryDayLemma
    <3>4. /\ Stored(b, m, h, e, 2, z) # Stored(b, m, h, 1, 3, z)
          /\ Stored(b, m, h, 2, 3, z) # Stored(b, m, h, 1, 3, z)
      BY StoredLemma
    <3>5. wrong
      BY <1>3, <2>3
    <3>6. u # Stored(b, m, h, 1, 3, z)
      BY <3>3, <3>4
    <3> QED BY <1>3, <2>3, <3>5, <3>6
  <2> QED BY <1>3, <2>2, <2>3
<1>4. CASE mo \in {4, 6, 9}
  <2>1. DaysIn(y, mo) = 30 /\ d <= 30 /\ e = d + 1 /\ ~wrong
    BY <1>2, <1>4 DEF DaysIn
  <2>2. mo \in Short
    BY <1>4 DEF Short
  <2>3. u = IF e = 31 THEN Stored(b, m, h, 1, mo + 1, z) ELSE Stored(b, m, h, e, mo, z)
    BY <1>2, <2>2, ThirtyLemma
  <2>4. e = 31 <=> d = 30
    BY <2>1
  <2>5. mo # 12
    BY <1>4
  <2> HIDE DEF u, wrong
  <2> QED BY <2>1, <2>3, <2>4, <2>5
<1>5. CASE mo = 10
  <2>1. DaysIn(y, mo) = 31
    BY <1>5 DEF DaysIn
  <2>2. mo \in Short
    BY <1>5 DEF Short
  <2>3. mo + 1 = 11
    BY <1>5
  <2>4. u = IF e = 31 THEN Stored(b, m, h, 1, mo + 1, z) ELSE Stored(b, m, h, e, mo, z)
    BY <1>2, <2>2, ThirtyLemma
  <2>5. u = IF e = 31 THEN Stored(b, m, h, 1, 11, z) ELSE Stored(b, m, h, e, mo, z)
    BY <2>3, <2>4
  <2>6. CASE d < 30
    <3>1. e = d + 1 /\ e # 31 /\ ~wrong
      BY <1>2, <1>5, <2>6
    <3> HIDE DEF u, wrong
    <3> QED BY <2>1, <2>5, <2>6, <3>1
  <2>7. CASE d = 30
    <3>1. e = 31 /\ wrong
      BY <1>2, <1>5, <2>7
    <3>2. Stored(b, m, h, 1, 11, z) # Stored(b, m, h, 31, mo, z)
      BY StoredLemma
    <3> HIDE DEF u, wrong
    <3> QED BY <2>1, <2>5, <2>7, <3>1, <3>2
  <2>8. CASE d = 31
    <3>1. e = 0 /\ wrong
      BY <1>2, <1>5, <2>8
    <3>2. Stored(b, m, h, 0, mo, z) # Stored(b, m, h, 1, mo + 1, z)
      BY StoredLemma
    <3> HIDE DEF u, wrong
    <3> QED BY <1>5, <2>1, <2>5, <2>8, <3>1, <3>2
  <2> QED BY <2>6, <2>7, <2>8
<1>6. CASE mo = 11
  <2>1. DaysIn(y, mo) = 30 /\ d <= 30 /\ e = d + 1
    BY <1>2, <1>6 DEF DaysIn
  <2>2. mo \in Long /\ e # 0
    BY <1>6, <2>1 DEF Long
  <2>3. u = Stored(b, m, h, e, mo, z)
    BY <2>2, LongDayLemma
  <2>4. wrong <=> d = 30
    BY <1>6
  <2>5. Stored(b, m, h, 31, mo, z) # Stored(b, m, h, 1, mo + 1, z)
    BY StoredLemma
  <2> HIDE DEF u, wrong
  <2> QED BY <1>6, <2>1, <2>3, <2>4, <2>5
<1>7. CASE mo \in {1, 3, 5, 7, 8, 12}
  <2>1. DaysIn(y, mo) = 31 /\ ~wrong
    BY <1>7 DEF DaysIn
  <2>2. mo \in Long
    BY <1>7 DEF Long
  <2>3. /\ e # 0 => u = Stored(b, m, h, e, mo, z)
        /\ e = 0 /\ mo = 12 => u = Stored(b, m, h, 1, 1, YearAfter(z))
        /\ e = 0 /\ mo # 12 => u = Stored(b, m, h, 1, mo + 1, z)
    BY <2>2, LongDayLemma, LongEndLemma
  <2>4. d < 31 => e = d + 1 /\ e # 0
    BY <1>2
  <2> HIDE DEF u, wrong
  <2> QED BY <1>2, <2>1, <2>3, <2>4
<1> QED BY <1>3, <1>4, <1>5, <1>6, <1>7

-----------------------------------------------------------------------------

\* Whether it is the last tick of its day is seen from the parts of the time.
Late(s) == s >= 24 * 3600 - 2
Over24(s) == s + 2 - 24 * 3600

\* The last tick of a day, by the parts of the time.
LEMMA LateLemma ==
    ASSUME NEW h \in HourSet, NEW m \in MinuteSet, NEW b \in BisecondSet, NEW o \in Odd
    PROVE  /\ Late(SecondOf(h, m, b, o)) <=> h = 23 /\ m = 59 /\ b = 29
           /\ h = 23 /\ m = 59 /\ b = 29 => Over24(SecondOf(h, m, b, o)) = SecondOf(0, 0, 0, o)
BY DEF SecondOf, Late, Over24, HourSet, MinuteSet, BisecondSet, Odd

\* A time of day is a number.
LEMMA SecondsType ==
    ASSUME NEW h \in HourSet, NEW m \in MinuteSet, NEW b \in BisecondSet, NEW o \in Odd
    PROVE  SecondOf(h, m, b, o) \in Int
BY DEF SecondOf, HourSet, MinuteSet, BisecondSet, Odd

\* Two seconds after s are the parts h, m, b, o of the same day, and t stores them.
Carried(s, t, h, m, b, o, d, mo, z) ==
    s + 2 = SecondOf(h, m, b, o) /\ t = Stored(b, m, h, d, mo, z)

\* Unless the day ends, the clock and the calendar carry alike.
LEMMA CarriedLemma ==
    ASSUME NEW h \in HourSet, NEW m \in MinuteSet, NEW b \in BisecondSet, NEW o \in Odd,
           NEW d \in 1..31, NEW mo, NEW z, ~(h = 23 /\ m = 59 /\ b = 29)
    PROVE  \E h1 \in HourSet, m1 \in MinuteSet, b1 \in BisecondSet :
             Carried(SecondOf(h, m, b, o), Tick(Stored(b, m, h, d, mo, z)), h1, m1, b1, o, d, mo, z)
<1> DEFINE s == SecondOf(h, m, b, o)
           t == Tick(Stored(b, m, h, d, mo, z))
<1>1. CASE b < 29
  <2>1. s + 2 = SecondOf(h, m, b + 1, o)
    BY DEF SecondOf, HourSet, MinuteSet, BisecondSet, Odd
  <2>2. b + 1 \in BisecondSet
    BY <1>1 DEF BisecondSet
  <2>3. t = Stored(b + 1, m, h, d, mo, z)
    BY <1>1, CarryLemma
  <2> HIDE DEF s, t
  <2>4. Carried(s, t, h, m, b + 1, o, d, mo, z)
    BY <2>1, <2>3 DEF Carried
  <2> QED BY <2>2, <2>4 DEF s, t
<1>2. CASE b = 29 /\ m < 59
  <2>1. s + 2 = SecondOf(h, m + 1, 0, o)
    BY <1>2 DEF SecondOf, HourSet, MinuteSet, BisecondSet, Odd
  <2>2. m + 1 \in MinuteSet /\ 0 \in BisecondSet
    BY <1>2 DEF MinuteSet, BisecondSet
  <2>3. t = Stored(0, m + 1, h, d, mo, z)
    BY <1>2, CarryLemma
  <2> HIDE DEF s, t
  <2>4. Carried(s, t, h, m + 1, 0, o, d, mo, z)
    BY <2>1, <2>3 DEF Carried
  <2> QED BY <2>2, <2>4 DEF s, t
<1>3. CASE b = 29 /\ m = 59 /\ h < 23
  <2>1. s + 2 = SecondOf(h + 1, 0, 0, o)
    BY <1>3 DEF SecondOf, HourSet, MinuteSet, BisecondSet, Odd
  <2>2. h + 1 \in HourSet /\ 0 \in MinuteSet /\ 0 \in BisecondSet
    BY <1>3 DEF HourSet, MinuteSet, BisecondSet
  <2>3. t = Stored(0, 0, h + 1, d, mo, z)
    BY <1>3, CarryLemma
  <2> HIDE DEF s, t
  <2>4. Carried(s, t, h + 1, 0, 0, o, d, mo, z)
    BY <2>1, <2>3 DEF Carried
  <2> QED BY <2>2, <2>4 DEF s, t
<1>4. (b < 29 \/ b = 29) /\ (m < 59 \/ m = 59) /\ (h < 23 \/ h = 23)
  BY DEF HourSet, MinuteSet, BisecondSet
<1> QED BY <1>1, <1>2, <1>3, <1>4

\* The day after.
NextYMD(y, mo, d, y1, mo1, d1) ==
    \/ d < DaysIn(y, mo) /\ y1 = y /\ mo1 = mo /\ d1 = d + 1
    \/ d = DaysIn(y, mo) /\ mo < 12 /\ y1 = y /\ mo1 = mo + 1 /\ d1 = 1
    \/ d = DaysIn(y, mo) /\ mo = 12 /\ y1 = y + 1 /\ mo1 = 1 /\ d1 = 1

\* NextDay as it acts on the day alone.
LEMMA NextYMDLemma ==
    ASSUME NEW y, NEW mo, NEW d, Day(y, mo, d)
    PROVE  \E y1, mo1, d1 : NextYMD(y, mo, d, y1, mo1, d1)
<1>1. d < DaysIn(y, mo) \/ d = DaysIn(y, mo)
  BY DEF Day, DaysIn
<1>2. mo < 12 \/ mo = 12
  BY DEF Day
<1>3. CASE d < DaysIn(y, mo)
  BY <1>3 DEF NextYMD
<1>4. CASE d = DaysIn(y, mo) /\ mo < 12
  BY <1>4 DEF NextYMD
<1>5. CASE d = DaysIn(y, mo) /\ mo = 12
  BY <1>5 DEF NextYMD
<1> QED BY <1>1, <1>2, <1>3, <1>4, <1>5

\* The day after a day that exists is a day that exists.
LEMMA NextYMDIsDay ==
    ASSUME NEW y, NEW mo, NEW d, Day(y, mo, d), NEW y1, NEW mo1, NEW d1, NextYMD(y, mo, d, y1, mo1, d1)
    PROVE  Day(y1, mo1, d1)
BY DEF Day, NextYMD, DaysIn

WithDay(t, d) == [t EXCEPT !.day = d]
WithMonth(t, mo, d) == [t EXCEPT !.day = d, !.month = mo]
WithYear(t, y, mo, d) == [t EXCEPT !.day = d, !.month = mo, !.year = y]

\* The day after, as a moment.
LEMMA DayLemma ==
    ASSUME NEW y, NEW mo, NEW d, NEW s, NEW y1, NEW mo1, NEW d1
    PROVE  /\ WithDay(At(y, mo, d, s), d1) = At(y, mo, d1, s)
           /\ WithMonth(At(y, mo, d, s), mo1, d1) = At(y, mo1, d1, s)
           /\ WithYear(At(y, mo, d, s), y1, mo1, d1) = At(y1, mo1, d1, s)
<1>1. ASSUME NEW u, u = [At(y, mo, d, s) EXCEPT !.day = d1] PROVE u = At(y, mo, d1, s)
  BY <1>1 DEF At
<1>2. ASSUME NEW u, u = [At(y, mo, d, s) EXCEPT !.day = d1, !.month = mo1] PROVE u = At(y, mo1, d1, s)
  BY <1>2 DEF At
<1>3. ASSUME NEW u, u = [At(y, mo, d, s) EXCEPT !.day = d1, !.month = mo1, !.year = y1]
      PROVE  u = At(y1, mo1, d1, s)
  BY <1>3 DEF At
<1> QED BY <1>1, <1>2, <1>3 DEF WithDay, WithMonth, WithYear

\* Two seconds after a moment.
LEMMA LaterLemma ==
    ASSUME NEW y, NEW mo, NEW d, Day(y, mo, d), NEW s \in Int,
           NEW y1, NEW mo1, NEW d1, NextYMD(y, mo, d, y1, mo1, d1)
    PROVE  Later(At(y, mo, d, s)) = IF Late(s) THEN At(y1, mo1, d1, Over24(s))
                                    ELSE At(y, mo, d, s + 2)
<1> DEFINE t == At(y, mo, d, s)
           later == s + 2
           over == Over24(s)
<1>1. t.year = y /\ t.month = mo /\ t.day = d /\ t.sec = s
  BY DEF At
<1>2. NextDay(t) = At(y1, mo1, d1, s)
  <2> DEFINE one == 1
             dn == d + 1
             mn == mo + 1
             yn == y + 1
  <2>1. NextDay(t) = IF d < DaysIn(y, mo) THEN WithDay(t, dn)
                     ELSE IF mo < 12 THEN WithMonth(t, mn, one) ELSE WithYear(t, yn, one, one)
    <3> HIDE DEF t
    <3> QED BY <1>1 DEF NextDay, WithDay, WithMonth, WithYear
  <2>2. \/ d < DaysIn(y, mo) /\ y1 = y /\ mo1 = mo /\ d1 = dn
        \/ ~(d < DaysIn(y, mo)) /\ mo < 12 /\ y1 = y /\ mo1 = mn /\ d1 = one
        \/ ~(d < DaysIn(y, mo)) /\ ~(mo < 12) /\ y1 = yn /\ mo1 = one /\ d1 = one
    BY DEF NextYMD, Day, DaysIn
  <2> HIDE DEF one, dn, mn, yn
  <2>3. WithDay(t, dn) = At(y, mo, dn, s)
    BY DayLemma
  <2>4. WithMonth(t, mn, one) = At(y, mn, one, s)
    BY DayLemma
  <2>5. WithYear(t, yn, one, one) = At(yn, one, one, s)
    BY DayLemma
  <2> QED BY <2>1, <2>2, <2>3, <2>4, <2>5
<1>3. Later(t) = IF Late(s) THEN [NextDay(t) EXCEPT !.sec = @ + 2 - 24 * 3600]
                 ELSE [t EXCEPT !.sec = @ + 2]
  <2> HIDE DEF t
  <2> QED BY <1>1 DEF Later, LastTick, Late
<1>4. [t EXCEPT !.sec = @ + 2] = At(y, mo, d, later)
  <2>1. [t EXCEPT !.sec = @ + 2] = [t EXCEPT !.sec = later]
    BY <1>1
  <2> HIDE DEF later
  <2> QED BY <2>1 DEF At
<1>5. [At(y1, mo1, d1, s) EXCEPT !.sec = @ + 2 - 24 * 3600] = At(y1, mo1, d1, over)
  <2> DEFINE u == At(y1, mo1, d1, s)
  <2>1. u.sec = s
    BY DEF At
  <2>2. [u EXCEPT !.sec = @ + 2 - 24 * 3600] = [u EXCEPT !.sec = over]
    BY <2>1 DEF Over24
  <2> HIDE DEF over
  <2> QED BY <2>2 DEF At
<1> QED BY <1>2, <1>3, <1>4, <1>5

\* Two seconds later, by the calendar and by advance_fattime.
LEMMA TwoSecondsLemma ==
    ASSUME NEW y, NEW mo, NEW d, Day(y, mo, d), FatYear(y),
           NEW h \in HourSet, NEW m \in MinuteSet, NEW b \in BisecondSet, NEW o \in Odd,
           NEW t, t = At(y, mo, d, SecondOf(h, m, b, o))
    PROVE  advance_fattime(Stamp(t)) = Stamp(Later(t)) <=> ~Astray(t)
<1> DEFINE z == YearField(y)
           s == SecondOf(h, m, b, o)
<1>1. y \in Nat /\ mo \in 1..12 /\ d \in 1..31 /\ d <= DaysIn(y, mo)
  BY DEF Day
<1>2. s \in Int
  BY SecondsType
<1>3. Stamp(t) = Stored(b, m, h, d, mo, z)
  BY <1>1, StampedLemma
<1>4. advance_fattime(Stamp(t)) = Settled(Tick(Stored(b, m, h, d, mo, z)))
  BY <1>3 DEF advance_fattime, Settled
<1>5. PICK y1, mo1, d1 : NextYMD(y, mo, d, y1, mo1, d1)
  BY NextYMDLemma
<1>6. Day(y1, mo1, d1)
  BY <1>5, NextYMDIsDay
<1>7. LastTick(t) <=> Late(s)
  BY DEF LastTick, At, Late
<1>8. LastTick(t) <=> h = 23 /\ m = 59 /\ b = 29
  BY <1>7, LateLemma
<1> HIDE DEF s
<1>9. Later(t) = IF LastTick(t) THEN At(y1, mo1, d1, Over24(s)) ELSE At(y, mo, d, s + 2)
  <2>1. Later(t) = IF Late(s) THEN At(y1, mo1, d1, Over24(s)) ELSE At(y, mo, d, s + 2)
    BY <1>2, <1>5, LaterLemma DEF s
  <2> QED BY <2>1, <1>7
<1>10. CASE ~LastTick(t)
  <2>1. PICK h1 \in HourSet, m1 \in MinuteSet, b1 \in BisecondSet :
           Carried(s, Tick(Stored(b, m, h, d, mo, z)), h1, m1, b1, o, d, mo, z)
    BY <1>1, <1>8, <1>10, CarriedLemma DEF s
  <2>2. s + 2 = SecondOf(h1, m1, b1, o) /\ Tick(Stored(b, m, h, d, mo, z)) = Stored(b1, m1, h1, d, mo, z)
    BY <2>1 DEF Carried
  <2>3. Later(t) = At(y, mo, d, SecondOf(h1, m1, b1, o))
    BY <1>9, <1>10, <2>2
  <2>4. Stamp(Later(t)) = Stored(b1, m1, h1, d, mo, z)
    BY <1>1, <2>3, StampedLemma
  <2>5. Settled(Stored(b1, m1, h1, d, mo, z)) = Stored(b1, m1, h1, d, mo, z) <=> ~(mo = 10 /\ d = 31)
    BY <1>1, SameDayLemma
  <2>6. Astray(t) <=> mo = 10 /\ d = 31
    BY <1>10 DEF Astray, At
  <2> QED BY <1>4, <2>2, <2>4, <2>5, <2>6
<1>11. CASE LastTick(t)
  <2> DEFINE u == Settled(Stored(0, 0, 0, (d + 1) % 32, mo, z))
             wrong == <<mo, d>> \in {<<2, DaysIn(y, 2)>>, <<10, 30>>, <<10, 31>>, <<11, 30>>}
  <2>1. Over24(s) = SecondOf(0, 0, 0, o)
    BY <1>8, <1>11, LateLemma DEF s
  <2>2. Stamp(Later(t)) = Stored(0, 0, 0, d1, mo1, YearField(y1))
    <3>1. Later(t) = At(y1, mo1, d1, SecondOf(0, 0, 0, o))
      BY <1>9, <1>11, <2>1
    <3>2. mo1 \in 1..12 /\ d1 \in 1..31
      BY <1>6 DEF Day
    <3>3. 0 \in HourSet /\ 0 \in MinuteSet /\ 0 \in BisecondSet
      BY DEF HourSet, MinuteSet, BisecondSet
    <3>4. Stamp(At(y1, mo1, d1, SecondOf(0, 0, 0, o))) = Stored(0, 0, 0, d1, mo1, YearField(y1))
      BY <3>2, <3>3, StampedLemma
    <3> QED BY <3>1, <3>4
  <2>3. Tick(Stored(b, m, h, d, mo, z)) = Stored(0, 0, 0, (d + 1) % 32, mo, z)
    <3>1. b = 29 /\ m = 59 /\ h = 23
      BY <1>8, <1>11
    <3> QED BY <1>1, <3>1, CarryLemma
  <2>4. advance_fattime(Stamp(t)) = u
    BY <1>4, <2>3
  <2>5. Astray(t) <=> wrong
    BY <1>11 DEF Astray, At
  <2>6. /\ d < DaysIn(y, mo) => (u = Stored(0, 0, 0, d + 1, mo, z) <=> ~wrong)
        /\ d = DaysIn(y, mo) /\ mo < 12 => (u = Stored(0, 0, 0, 1, mo + 1, z) <=> ~wrong)
        /\ d = DaysIn(y, mo) /\ mo = 12 =>
             (u = Stored(0, 0, 0, 1, 1, YearField(y + 1)) <=> ~wrong)
    BY <1>1, NextDayLemma
  <2> HIDE DEF u, wrong
  <2>7. u = Stored(0, 0, 0, d1, mo1, YearField(y1)) <=> ~wrong
    BY <1>5, <2>6 DEF NextYMD
  <2> QED BY <2>2, <2>4, <2>5, <2>7
<1> QED BY <1>10, <1>11

-----------------------------------------------------------------------------
(* The calendar stays on days that exist.                                    *)

OnDay(t, y, mo, d) ==
    /\ Day(y, mo, d)
    /\ \E h \in HourSet, m \in MinuteSet, b \in BisecondSet, o \in Odd : t = At(y, mo, d, SecondOf(h, m, b, o))

Moment(t) == \E y, mo, d : OnDay(t, y, mo, d)

CalendarInv == IsMoment(now) => Moment(now)

\* Time leads from moments of the calendar to moments of the calendar.
LEMMA LaterIsMoment ==
    ASSUME NEW t, Moment(t)
    PROVE  Moment(Later(t))
<1>1. PICK y, mo, d : OnDay(t, y, mo, d)
  BY DEF Moment
<1>2. PICK h \in HourSet, m \in MinuteSet, b \in BisecondSet, o \in Odd : t = At(y, mo, d, SecondOf(h, m, b, o))
  BY <1>1 DEF OnDay
<1>3. Day(y, mo, d) /\ d \in 1..31
  BY <1>1 DEF OnDay, Day
<1>4. PICK y1, mo1, d1 : NextYMD(y, mo, d, y1, mo1, d1)
  BY <1>3, NextYMDLemma
<1>5. Day(y1, mo1, d1)
  BY <1>3, <1>4, NextYMDIsDay
<1> DEFINE s == SecondOf(h, m, b, o)
<1>6. s \in Int
  BY SecondsType
<1>7. Late(s) <=> h = 23 /\ m = 59 /\ b = 29
  BY LateLemma
<1>8. Later(t) = IF Late(s) THEN At(y1, mo1, d1, Over24(s)) ELSE At(y, mo, d, s + 2)
  BY <1>2, <1>3, <1>4, <1>6, LaterLemma
<1>9. CASE Late(s)
  <2>1. Over24(s) = SecondOf(0, 0, 0, o)
    BY <1>7, <1>9, LateLemma
  <2>2. 0 \in HourSet /\ 0 \in MinuteSet /\ 0 \in BisecondSet
    BY DEF HourSet, MinuteSet, BisecondSet
  <2>3. OnDay(Later(t), y1, mo1, d1)
    BY <1>5, <1>8, <1>9, <2>1, <2>2 DEF OnDay
  <2> QED BY <2>3 DEF Moment
<1>10. CASE ~Late(s)
  <2>1. PICK h1 \in HourSet, m1 \in MinuteSet, b1 \in BisecondSet :
           Carried(s, Tick(Stored(b, m, h, d, mo, y)), h1, m1, b1, o, d, mo, y)
    BY <1>3, <1>7, <1>10, CarriedLemma
  <2>2. s + 2 = SecondOf(h1, m1, b1, o)
    BY <2>1 DEF Carried
  <2>3. OnDay(Later(t), y, mo, d)
    BY <1>3, <1>8, <1>10, <2>2 DEF OnDay
  <2> QED BY <2>3 DEF Moment
<1> QED BY <1>9, <1>10

\* Digits that the calendar has are a moment of it.
LEMMA EnteredIsMoment ==
    ASSUME NEW y \in Years, NEW mo \in Months, NEW d \in Days,
           NEW h \in Hours, NEW mi \in Minutes, NEW s \in Seconds, Exists(y, mo, d, h, mi, s)
    PROVE  Moment(At(y, mo, d, 3600 * h + 60 * mi + s))
<1>1. y \in Nat /\ h \in 0..23 /\ mi \in 0..59 /\ s \in 0..59
  <2>1. y \in 0..9999 /\ h \in 0..99 /\ mi \in 0..99 /\ s \in 0..99
    BY ClockAssumption
  <2> QED BY <2>1 DEF Exists
<1> DEFINE sec == 3600 * h + 60 * mi + s
<1>2. sec \in Nat /\ InDay(sec)
  BY <1>1 DEF InDay
<1>3. Day(y, mo, d)
  BY <1>1 DEF Day, DaysIn, Exists
<1> HIDE DEF sec
<1>4. TimeOfDay(sec)
  BY <1>2, SecondsLemma
<1>5. OnDay(At(y, mo, d, sec), y, mo, d)
  BY <1>3, <1>4 DEF OnDay, TimeOfDay
<1> QED BY <1>5 DEF Moment, sec

\* For every date and time entered and however long the clock runs: up to the year
\* 2107 a clock that is right leaves the calendar at the listed ends of months and nowhere else
\* (sdcard.c:51).
THEOREM CalendarTheorem == ClockSpec => AdvanceIsCalendar
<1>1. ClockInit => CalendarInv
  BY DEF ClockInit, CalendarInv, IsMoment
<1>2. CalendarInv /\ [ClockNext]_clockVars => CalendarInv'
  <2> SUFFICES ASSUME CalendarInv, [ClockNext]_clockVars PROVE CalendarInv'
    OBVIOUS
  <2>1. CASE date
    <3>1. PICK y \in Years, mo \in Months, d \in Days, h \in Hours, mi \in Minutes, s \in Seconds :
              now' = IF Exists(y, mo, d, h, mi, s)
                     THEN At(y, mo, d, 3600 * h + 60 * mi + s) ELSE NoMoment
      BY <2>1 DEF date, At
    <3>2. CASE Exists(y, mo, d, h, mi, s)
      <4>1. Moment(At(y, mo, d, 3600 * h + 60 * mi + s))
        BY <3>2, EnteredIsMoment
      <4> QED BY <3>1, <3>2, <4>1 DEF CalendarInv
    <3>3. CASE ~Exists(y, mo, d, h, mi, s)
      BY <3>1, <3>3 DEF CalendarInv, IsMoment
    <3> QED BY <3>2, <3>3
  <2>2. CASE Advance
    <3>1. CASE IsMoment(now)
      BY <2>2, <3>1, LaterIsMoment DEF Advance, CalendarInv
    <3>2. CASE ~IsMoment(now)
      BY <2>2, <3>2 DEF Advance, CalendarInv
    <3> QED BY <3>1, <3>2
  <2>3. CASE UNCHANGED clockVars
    BY <2>3 DEF clockVars, CalendarInv
  <2> QED BY <2>1, <2>2, <2>3 DEF ClockNext
<1>3. CalendarInv /\ [ClockNext]_clockVars =>
        [Advance /\ IsMoment(now) /\ fattime = Stamp(now) /\ now.year <= 2107 =>
            (fattime' = Stamp(now') <=> ~Astray(now))]_clockVars
  <2> SUFFICES ASSUME CalendarInv, Advance, IsMoment(now), fattime = Stamp(now), now.year <= 2107
               PROVE  fattime' = Stamp(now') <=> ~Astray(now)
    OBVIOUS
  <2>1. PICK y, mo, d : OnDay(now, y, mo, d)
    BY DEF CalendarInv, Advance, Moment
  <2>2. PICK h \in HourSet, m \in MinuteSet, b \in BisecondSet, o \in Odd :
           now = At(y, mo, d, SecondOf(h, m, b, o))
    BY <2>1 DEF OnDay
  <2>3. now.year = y
    BY <2>2 DEF At
  <2>4. Day(y, mo, d) /\ FatYear(y)
    BY <2>1, <2>3 DEF OnDay, Day, FatYear
  <2>5. fattime' = advance_fattime(Stamp(now)) /\ now' = Later(now)
    BY DEF Advance
  <2> QED BY <2>2, <2>4, <2>5, TwoSecondsLemma
<1> QED BY <1>1, <1>2, <1>3, PTL DEF ClockSpec, AdvanceIsCalendar
=============================================================================
