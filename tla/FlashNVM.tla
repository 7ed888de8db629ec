------------------------------ MODULE FlashNVM ------------------------------
(***************************************************************************)
(* FlashNVM (src/cpp/FlashNVM.cpp): erasing and writing program memory and *)
(* the boot row.  A call is a script of steps, one for every access to the *)
(* controller, that is run once for each page; a reset may come between    *)
(* any two of them.                                                        *)
(***************************************************************************)
EXTENDS NVMCTRL

VARIABLES
  todo,   \* the steps of the call that are left for this page
  call,   \* its script, and area, _page_top, _buff_off, source and size
  buf,    \* buffer[PROGMEM_PAGE_SIZE]
  word,   \* words or bytes the step has stored
  want    \* what the call promises: for each address the bytes it may leave

running == <<todo, call, buf, word>>
Idle    == todo = <<>>
Nothing == <<>>

Addr(i) == <<call.area, call.top + i>>

NoCall == [script |-> <<>>, area |-> "flash", top |-> 0, off |-> 0, data |-> <<>>, size |-> 0]

InitCalls == InitNvm /\ todo = <<>> /\ call = NoCall /\ buf = NoBuffer /\ word = 0 /\ want = Nothing

\* A call is over: its variables are gone.
EndCall == todo' = <<>> /\ call' = NoCall /\ buf' = NoBuffer /\ word' = 0 /\ want' = Nothing

Begin(first, script, area, top, off, data, size, w) ==
  /\ Idle /\ todo' = first \o script /\ word' = 0 /\ want' = w
  /\ call' = [script |-> script, area |-> area, top |-> top, off |-> off,
              data |-> data, size |-> size]
  /\ UNCHANGED <<nvm, buf>>

-----------------------------------------------------------------------------
(* The steps.                                                              *)

Step(s) == ~Idle /\ Head(todo) = s

nvm_cmd ==
  /\ ~Idle /\ Head(todo) \in {"NOOP", "FLPER", "FLWR", "FLPW", "FLPERW", "FLPBCLR"}
  /\ Command(Head(todo)) /\ todo' = Tail(todo) /\ UNCHANGED <<call, buf, word, want>>

ReadyWhenBusy == busy                             \* mutant: the bits tested the wrong way
Ready         == ~busy
nvm_wait == Step("wait") /\ Ready /\ todo' = Tail(todo) /\ UNCHANGED <<nvm, call, buf, word, want>>

\* The dummy byte that tells the controller the page: nobody says which byte.
nvm_stc ==
  /\ Step("dummy") /\ \E b \in Byte : Put([l \in {Addr(0)} |-> b])
  /\ todo' = Tail(todo) /\ UNCHANGED <<call, buf, word, want>>

\* One round of the loop of nvm_write: SPM stores a word, and the ST of
\* version 0 a byte, but the rounds are half as many as the page has bytes.
Rounds    == PageSize \div 2
Width     == IF ver = 0 THEN 1 ELSE 2
nvm_write ==
  /\ Step("write")
  /\ Put([l \in {Addr(Width * word + i) : i \in 0 .. Width - 1} |-> buf[Slot(l)]])
  /\ IF word + 1 = Rounds THEN todo' = Tail(todo) /\ word' = 0 ELSE word' = word + 1 /\ UNCHANGED todo
  /\ UNCHANGED <<call, buf, want>>

\* Bytes stored one after the other: nvm_stz, and the memcpy of UrowNVM.
nvm_stz ==
  /\ Step("store") /\ Put([l \in {Addr(word)} |-> call.data[word + 1]])
  /\ IF word + 1 = Len(call.data) THEN todo' = Tail(todo) /\ word' = 0
                                  ELSE word' = word + 1 /\ UNCHANGED todo
  /\ UNCHANGED <<call, buf, want>>

\* The buffer of a page: erased but for what of the source falls into it.
Least(m, n) == IF m <= n THEN m ELSE n
FillOver == buf                                   \* mutant: no memset
FillOnes == NoBuffer
Fill ==
  LET n == Least(Len(call.data), PageSize - call.off) IN
  /\ Step("fill") /\ todo' = Tail(todo)
  /\ buf' = [i \in 0 .. PageSize - 1 |->
               IF i \in call.off .. call.off + n - 1 THEN call.data[i - call.off + 1] ELSE FillOnes[i]]
  /\ call' = [call EXCEPT !.data = SubSeq(@, n + 1, Len(@)), !.off = 0]
  /\ UNCHANGED <<nvm, word, want>>

\* The end of a round: on to the next page, or back to the caller.  The
\* update of version 0 does not move on.
NextErase ==
  /\ Step("nextErase") /\ UNCHANGED <<nvm, buf, word, want>>
  /\ IF call.size <= PageSize THEN todo' = Tail(todo) /\ UNCHANGED call
     ELSE todo' = call.script /\ call' = [call EXCEPT !.top = @ + PageSize, !.size = @ - PageSize]

MovesOn   == IF ver = 0 THEN 0 ELSE PageSize
NextUpdate ==
  /\ Step("nextUpdate") /\ UNCHANGED <<nvm, buf, word, want>>
  /\ call' = [call EXCEPT !.top = @ + MovesOn]
  /\ todo' = IF call.data = <<>> THEN Tail(todo) ELSE call.script

Return == Idle /\ want # Nothing /\ EndCall /\ UNCHANGED nvm

Steps == nvm_cmd \/ nvm_wait \/ nvm_stc \/ nvm_write \/ nvm_stz \/ Fill \/ NextErase \/ NextUpdate

-----------------------------------------------------------------------------
(* The calls.                                                              *)

EraseNoop == <<"NOOP", "dummy", "wait", "NOOP", "nextErase">>   \* mutant: nothing erased
EraseDx == <<"FLPER", "dummy", "wait", "NOOP", "nextErase">>
EraseEx == <<"NOOP", "dummy", "FLPER", "wait", "nextErase">>
Erase0  == <<"dummy", "FLPER", "wait", "nextErase">>
EraseScript == CASE ver = 2 -> EraseDx [] ver = 3 -> EraseEx [] OTHER -> Erase0

UpdateDx == <<"fill", "FLWR", "write", "wait", "NOOP", "nextUpdate">>
UpdateEx == <<"fill", "FLPBCLR", "write", "FLPW", "wait", "nextUpdate">>
Update0  == <<"fill", "write", "FLPW", "wait", "nextUpdate">>
UpdateScript == CASE ver = 2 -> UpdateDx [] ver = 3 -> UpdateEx [] OTHER -> Update0

\* What a call promises.  Writing gives the AND of what is there and the data.
Ones(area, from, to)  == [l \in {<<area, i>> : i \in from .. to} |-> {Erased}]
Anded(area, from, d)  ==
  [l \in {<<area, i>> : i \in from .. from + Len(d) - 1} |-> {mem[l] \intersect d[l[2] - from + 1]}]

page_erase_PF(a, size) ==
  LET top == a - (a % PageSize)
      n   == (size + PageSize - 1) \div PageSize
  IN  Begin(<<>>, EraseScript, "flash", top, 0, <<>>, size, Ones("flash", top, top + n * PageSize - 1))

page_update_PF(a, d) ==
  LET off == a % PageSize
  IN  Begin(IF ver = 2 THEN <<"wait">> ELSE <<>>, UpdateScript, "flash", a - off, off, d, 0,
            Anded("flash", a, d))

BootClearDx == <<"FLPER", "dummy", "wait", "NOOP">>
BootClearEx == <<"wait", "NOOP", "dummy", "FLPERW", "wait">>
BootSaveDx  == <<"wait", "FLWR", "store", "wait", "NOOP">>
BootSaveEx  == <<"wait", "NOOP", "store", "FLPERW", "wait">>

\* Version 3 erases and writes the row in one, the dummy byte included.
bootrow_clear ==
  /\ ver # 0
  /\ Begin(<<>>, IF ver = 2 THEN BootClearDx ELSE BootClearEx, "boot", 0, 0, <<>>, 0,
           [l \in DOMAIN Ones("boot", 0, RowSize - 1) |->
              IF ver = 3 /\ l[2] = 0 THEN Byte ELSE {Erased}])

bootrow_save(d) ==
  /\ ver # 0
  /\ Begin(<<>>, IF ver = 2 THEN BootSaveDx ELSE BootSaveEx, "boot", 0, 0, d, 0,
           IF ver = 2 THEN Anded("boot", 0, d)
           ELSE [l \in DOMAIN Ones("boot", 0, RowSize - 1) |->
                   IF l[2] < Len(d) THEN {d[l[2] + 1]} ELSE {Erased}])

\* bootrow_load and bootrow_verify count n down in a byte register of Wrap
\* values and stop at 0: 0 itself is Wrap rounds.
RoundsOf(n, wrap)    == IF n % wrap = 0 THEN wrap ELSE n % wrap
bootrow_load(n, wrap) == [i \in 1 .. RoundsOf(n, wrap) |-> mem[<<"boot", i - 1>>]]
bootrow_verify(d, wrap) ==
  \A i \in 1 .. RoundsOf(Len(d), wrap) : i <= Len(d) /\ mem[<<"boot", i - 1>>] = d[i]
=============================================================================
