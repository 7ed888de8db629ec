------------------------------ MODULE NVMCTRL -------------------------------
(***************************************************************************)
(* The non-volatile memory controller of the AVR, as src/cpp/FlashNVM.cpp  *)
(* and src/cpp/UrowNVM.cpp use it (external to src/).  A byte is the set   *)
(* of its bits that are 1: erased it is Bits, and programming takes bits   *)
(* away.  Versions 2 and 4 act on a store at once, by the command in force;*)
(* versions 0, 3 and 5 collect stores in a page buffer until a command.    *)
(***************************************************************************)
EXTENDS Integers, Sequences

CONSTANTS
  Bits,      \* the bits of a byte
  PageSize,  \* PROGMEM_PAGE_SIZE
  Pages,     \* pages of program memory left to the application
  RowSize    \* USER_SIGNATURES_SIZE and BOOTROW_SIZE

ASSUME NvmAssumption ==
  /\ PageSize \in Nat \ {0} /\ PageSize % 4 = 0
  /\ Pages \in Nat \ {0} /\ RowSize \in 1 .. PageSize

VARIABLES
  ver,    \* AVR_NVMCTRL: 0 for 0, 2 for 2 and 4, 3 for 3 and 5
  mem,    \* the memory
  pbuf,   \* the page buffer
  at,     \* the address stored to last
  cmd,    \* the command in force (version 2)
  busy    \* NVMCTRL_STATUS & 3

nvm == <<ver, mem, pbuf, at, cmd, busy>>

Byte   == SUBSET Bits
Erased == Bits
Loc    == {<<"flash", i>> : i \in 0 .. Pages * PageSize - 1}
          \union {<<r, i>> : r \in {"boot", "user"}, i \in 0 .. RowSize - 1}

Buffered == ver \in {0, 3}
Slot(l)  == l[2] % PageSize
Unit(l)  == {k \in Loc : k[1] = l[1] /\ k[2] \div PageSize = l[2] \div PageSize}
NoBuffer == [i \in 0 .. PageSize - 1 |-> Erased]

InitNvm ==
  /\ pbuf = NoBuffer /\ at = <<"flash", 0>> /\ cmd = "NOOP" /\ busy = FALSE

\* A store of the bytes w (a function on one or two addresses).
Put(w) ==
  /\ ~busy /\ at' = CHOOSE l \in DOMAIN w : TRUE
  /\ IF Buffered
       THEN /\ pbuf' = [i \in DOMAIN pbuf |->
                          LET at_i == {l \in DOMAIN w : Slot(l) = i}
                          IN  IF at_i = {} THEN pbuf[i] ELSE w[CHOOSE l \in at_i : TRUE]]
            /\ UNCHANGED <<mem, busy>>
       ELSE /\ busy' = (cmd # "NOOP") /\ UNCHANGED pbuf
            /\ mem' = [l \in Loc |->
                 CASE cmd = "FLPER" /\ l \in Unit(at') -> Erased
                   [] cmd = "FLWR" /\ l \in DOMAIN w   -> mem[l] \intersect w[l]
                   [] OTHER                            -> mem[l]]
  /\ UNCHANGED <<ver, cmd>>

Erases == {"FLPER", "FLPERW"}
Writes == {"FLPW", "FLPERW"}

Command(c) ==
  /\ cmd' = c /\ UNCHANGED <<ver, at>>
  /\ IF Buffered
       THEN /\ busy' = (c \in Erases \union Writes)
            /\ pbuf' = IF c \in Writes \union {"FLPBCLR"} THEN NoBuffer ELSE pbuf
            /\ mem' = [l \in Loc |->
                 IF l \notin Unit(at) THEN mem[l]
                 ELSE (IF c \in Erases THEN Erased ELSE mem[l])
                      \intersect (IF c \in Writes THEN pbuf[Slot(l)] ELSE Bits)]
       ELSE UNCHANGED <<mem, pbuf, busy>>

Finish == busy /\ busy' = FALSE /\ UNCHANGED <<ver, mem, pbuf, at, cmd>>

\* A reset: what the controller has begun it finishes; the rest is forgotten.
ResetNvm == pbuf' = NoBuffer /\ cmd' = "NOOP" /\ busy' = FALSE /\ UNCHANGED <<ver, mem, at>>
=============================================================================
