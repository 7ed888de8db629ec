----------------------------- MODULE NvmProofs ------------------------------
(***************************************************************************)
(* Proofs about NvmSample, for any bytes, page size and number of pages,   *)
(* any row and any place of the record: what is left of the script of a    *)
(* call, with the memory and the page buffer as they are there, says that  *)
(* the call will keep its promise (Clearing, Updating, Saving); so the     *)
(* memory is NorMemory's, and the magic of a record vouches for its count. *)
(***************************************************************************)
EXTENDS NvmSample, TLAPS, SequenceTheorems

-----------------------------------------------------------------------------
(* The scripts, by what is left of them: v is the version, a the area.     *)


\* The memory of a row is as asked.
RowOver(t) ==
  \/ t = <<"wait", "NOOP">>
  \/ t = <<"NOOP", "wait">>
  \/ t = <<"NOOP">>
  \/ t = <<"wait">>

\* A page of flash is erased.
EraseOver(t) ==
  \/ t = <<"wait", "NOOP", "nextErase">>
  \/ t = <<"NOOP", "nextErase">>
  \/ t = <<"wait", "nextErase">>
  \/ t = <<"nextErase">>

\* A page of flash is written.
UpdateOver(t) ==
  \/ t = <<"wait", "NOOP", "nextUpdate">>
  \/ t = <<"NOOP", "nextUpdate">>
  \/ t = <<"wait", "nextUpdate">>
  \/ t = <<"nextUpdate">>

\* A page or a row is to be erased; then the command is given before the dummy store (version 2), or the dummy store made and the command to come.
ClearFresh(v, a, t) ==
  \/ v = 2 /\ a = "flash" /\ t = EraseDx
  \/ v = 2 /\ a = "boot" /\ t = BootClearDx
  \/ v = 2 /\ a = "user" /\ t = UserClear2
  \/ v = 3 /\ a = "flash" /\ t = EraseEx
  \/ v # 2 /\ a = "flash" /\ t = Erase0
  \/ v = 3 /\ a = "boot" /\ t = BootClearEx
  \/ v = 3 /\ a = "boot" /\ t = <<"NOOP", "dummy", "FLPERW", "wait">>
  \/ v = 3 /\ a = "boot" /\ t = <<"dummy", "FLPERW", "wait">>
  \/ v = 3 /\ a = "user" /\ t = UserClear3
  \/ v = 3 /\ a = "user" /\ t = <<"dummy", "FLPER", "wait">>
ClearArmed(v, a, t) ==
  \/ v = 2 /\ a = "flash" /\ t = <<"dummy", "wait", "NOOP", "nextErase">>
  \/ v = 2 /\ a = "boot" /\ t = <<"dummy", "wait", "NOOP">>
  \/ v = 2 /\ a = "user" /\ t = <<"dummy", "NOOP", "wait">>
ClearPlaced(v, a, t) ==
  \/ v # 2 /\ a = "flash" /\ t = <<"FLPER", "wait", "nextErase">>
  \/ v = 3 /\ a = "boot" /\ t = <<"FLPERW", "wait">>
  \/ v = 3 /\ a = "user" /\ t = <<"FLPER", "wait">>

\* A page of flash is to be filled, stored, and written.
UpdateFill(v, t) ==
  \/ v = 2 /\ t = UpdateDx
  \/ v = 3 /\ t = UpdateEx
  \/ v = 0 /\ t = Update0
UpdateFilled(v, t) ==
  \/ v = 2 /\ t = <<"FLWR", "write", "wait", "NOOP", "nextUpdate">>
  \/ v = 3 /\ t = <<"FLPBCLR", "write", "FLPW", "wait", "nextUpdate">>
UpdateWriting(v, t) ==
  \/ v = 2 /\ t = <<"write", "wait", "NOOP", "nextUpdate">>
  \/ v # 2 /\ t = <<"write", "FLPW", "wait", "nextUpdate">>
UpdateWritten(v, t) == v # 2 /\ t = <<"FLPW", "wait", "nextUpdate">>

\* Bytes are to be stored to a row; wipe says that the row is erased with it.
RowBegun(v, wipe, t) ==
  \/ v = 2 /\ ~wipe /\ t = BootSaveDx
  \/ v = 2 /\ ~wipe /\ t = UserSave2
  \/ v = 2 /\ ~wipe /\ t = <<"FLWR", "store", "wait", "NOOP">>
  \/ v = 2 /\ ~wipe /\ t = <<"FLWR", "store", "NOOP", "wait">>
  \/ v = 3 /\ ~wipe /\ t = UserSave3
  \/ v = 3 /\ ~wipe /\ t = <<"NOOP", "store", "FLPW", "wait">>
  \/ v = 3 /\ wipe /\ t = BootSaveEx
  \/ v = 3 /\ wipe /\ t = <<"NOOP", "store", "FLPERW", "wait">>
RowStoring(v, wipe, t) ==
  \/ v = 2 /\ ~wipe /\ t = <<"store", "wait", "NOOP">>
  \/ v = 2 /\ ~wipe /\ t = <<"store", "NOOP", "wait">>
  \/ v # 2 /\ ~wipe /\ t = <<"store", "FLPW", "wait">>
  \/ v # 2 /\ wipe /\ t = <<"store", "FLPERW", "wait">>
RowStored(v, wipe, t) ==
  \/ v # 2 /\ ~wipe /\ t = <<"FLPW", "wait">>
  \/ v # 2 /\ wipe /\ t = <<"FLPERW", "wait">>

\* Behind the wait of versions 2 and 4.
UpdateBegun(v, t) == UpdateFill(v, t) \/ (v = 2 /\ t = <<"wait">> \o UpdateDx)
ClearOver(a, t) == IF a = "flash" THEN EraseOver(t) ELSE RowOver(t)

\* What comes next, at each of these places.
LEMMA RowOverSteps ==
  ASSUME NEW t, RowOver(t)
  PROVE  t # <<>> /\ Head(t) \in {"wait", "NOOP"} /\ (RowOver(Tail(t)) \/ Tail(t) = <<>>)
  <1>1. CASE t = <<"wait", "NOOP">>
    BY <1>1 DEF RowOver
  <1>2. CASE t = <<"NOOP", "wait">>
    BY <1>2 DEF RowOver
  <1>3. CASE t = <<"NOOP">>
    BY <1>3 DEF RowOver
  <1>4. CASE t = <<"wait">>
    BY <1>4 DEF RowOver
  <1>5. QED
    BY <1>1, <1>2, <1>3, <1>4 DEF RowOver

\* The same for an erased page.
LEMMA EraseOverSteps ==
  ASSUME NEW t, EraseOver(t)
  PROVE  /\ t # <<>>
         /\ \/ Head(t) \in {"wait", "NOOP"} /\ EraseOver(Tail(t))
            \/ Head(t) = "nextErase" /\ Tail(t) = <<>>
  <1>1. CASE t = <<"wait", "NOOP", "nextErase">>
    BY <1>1 DEF EraseOver
  <1>2. CASE t = <<"NOOP", "nextErase">>
    BY <1>2 DEF EraseOver
  <1>3. CASE t = <<"wait", "nextErase">>
    BY <1>3 DEF EraseOver
  <1>4. CASE t = <<"nextErase">>
    BY <1>4 DEF EraseOver
  <1>5. QED
    BY <1>1, <1>2, <1>3, <1>4 DEF EraseOver

\* For a written page.
LEMMA UpdateOverSteps ==
  ASSUME NEW t, UpdateOver(t)
  PROVE  /\ t # <<>>
         /\ \/ Head(t) \in {"wait", "NOOP"} /\ UpdateOver(Tail(t))
            \/ Head(t) = "nextUpdate" /\ Tail(t) = <<>>
  <1>1. CASE t = <<"wait", "NOOP", "nextUpdate">>
    BY <1>1 DEF UpdateOver
  <1>2. CASE t = <<"NOOP", "nextUpdate">>
    BY <1>2 DEF UpdateOver
  <1>3. CASE t = <<"wait", "nextUpdate">>
    BY <1>3 DEF UpdateOver
  <1>4. CASE t = <<"nextUpdate">>
    BY <1>4 DEF UpdateOver
  <1>5. QED
    BY <1>1, <1>2, <1>3, <1>4 DEF UpdateOver

\* For a clear that has not touched the memory.
LEMMA FreshSteps ==
  ASSUME NEW v, NEW a, NEW t, ClearFresh(v, a, t)
  PROVE  /\ t # <<>>
         /\ \/ Head(t) \in {"wait", "NOOP"} /\ ClearFresh(v, a, Tail(t))
            \/ Head(t) = "FLPER" /\ v = 2 /\ ClearArmed(v, a, Tail(t))
            \/ Head(t) = "dummy" /\ v # 2 /\ ClearPlaced(v, a, Tail(t))
  <1>1. CASE v = 2 /\ a = "flash" /\ t = EraseDx
    BY <1>1 DEF ClearFresh, ClearArmed, ClearPlaced, Erase0, EraseDx
  <1>2. CASE v = 2 /\ a = "boot" /\ t = BootClearDx
    BY <1>2 DEF ClearFresh, ClearArmed, ClearPlaced, Erase0, BootClearDx
  <1>3. CASE v = 2 /\ a = "user" /\ t = UserClear2
    BY <1>3 DEF ClearFresh, ClearArmed, ClearPlaced, Erase0, UserClear2
  <1>4. CASE v = 3 /\ a = "flash" /\ t = EraseEx
    BY <1>4 DEF ClearFresh, ClearArmed, ClearPlaced, Erase0, EraseEx
  <1>5. CASE v # 2 /\ a = "flash" /\ t = Erase0
    BY <1>5 DEF ClearFresh, ClearArmed, ClearPlaced, Erase0
  <1>6. CASE v = 3 /\ a = "boot" /\ t = BootClearEx
    BY <1>6 DEF ClearFresh, ClearArmed, ClearPlaced, Erase0, BootClearEx
  <1>7. CASE v = 3 /\ a = "boot" /\ t = <<"NOOP", "dummy", "FLPERW", "wait">>
    BY <1>7 DEF ClearFresh, ClearArmed, ClearPlaced, Erase0
  <1>8. CASE v = 3 /\ a = "boot" /\ t = <<"dummy", "FLPERW", "wait">>
    BY <1>8 DEF ClearFresh, ClearArmed, ClearPlaced, Erase0
  <1>9. CASE v = 3 /\ a = "user" /\ t = UserClear3
    BY <1>9 DEF ClearFresh, ClearArmed, ClearPlaced, Erase0, UserClear3
  <1>10. CASE v = 3 /\ a = "user" /\ t = <<"dummy", "FLPER", "wait">>
    BY <1>10 DEF ClearFresh, ClearArmed, ClearPlaced, Erase0
  <1>11. QED
    BY <1>1, <1>2, <1>3, <1>4, <1>5, <1>6, <1>7, <1>8, <1>9, <1>10 DEF ClearFresh

\* For one whose command is in force.
LEMMA ArmedSteps ==
  ASSUME NEW v, NEW a, NEW t, ClearArmed(v, a, t)
  PROVE  t # <<>> /\ Head(t) = "dummy" /\ v = 2 /\ ClearOver(a, Tail(t))
  <1>1. CASE v = 2 /\ a = "flash" /\ t = <<"dummy", "wait", "NOOP", "nextErase">>
    BY <1>1 DEF ClearOver, EraseOver, RowOver
  <1>2. CASE v = 2 /\ a = "boot" /\ t = <<"dummy", "wait", "NOOP">>
    BY <1>2 DEF ClearOver, EraseOver, RowOver
  <1>3. CASE v = 2 /\ a = "user" /\ t = <<"dummy", "NOOP", "wait">>
    BY <1>3 DEF ClearOver, EraseOver, RowOver
  <1>4. QED
    BY <1>1, <1>2, <1>3 DEF ClearArmed

\* For one whose dummy byte is stored.
LEMMA PlacedSteps ==
  ASSUME NEW v, NEW a, NEW t, ClearPlaced(v, a, t)
  PROVE  /\ t # <<>> /\ v # 2 /\ ClearOver(a, Tail(t))
         /\ Head(t) = "FLPER" \/ (Head(t) = "FLPERW" /\ v = 3 /\ a = "boot")
  <1>1. CASE v # 2 /\ a = "flash" /\ t = <<"FLPER", "wait", "nextErase">>
    BY <1>1 DEF ClearOver, EraseOver, RowOver
  <1>2. CASE v = 3 /\ a = "boot" /\ t = <<"FLPERW", "wait">>
    BY <1>2 DEF ClearOver, EraseOver, RowOver
  <1>3. CASE v = 3 /\ a = "user" /\ t = <<"FLPER", "wait">>
    BY <1>3 DEF ClearOver, EraseOver, RowOver
  <1>4. QED
    BY <1>1, <1>2, <1>3 DEF ClearPlaced

\* For an update before the page's buffer is filled.
LEMMA FillSteps ==
  ASSUME NEW v, NEW t, UpdateFill(v, t)
  PROVE  /\ t # <<>> /\ Head(t) = "fill"
         /\ UpdateFilled(v, Tail(t)) \/ (v = 0 /\ UpdateWriting(v, Tail(t)))
  <1>1. CASE v = 2 /\ t = UpdateDx
    BY <1>1 DEF UpdateFilled, UpdateWriting, UpdateDx
  <1>2. CASE v = 3 /\ t = UpdateEx
    BY <1>2 DEF UpdateFilled, UpdateWriting, UpdateEx
  <1>3. CASE v = 0 /\ t = Update0
    BY <1>3 DEF UpdateFilled, UpdateWriting, Update0
  <1>4. QED
    BY <1>1, <1>2, <1>3 DEF UpdateFill

\* For one about to store.
LEMMA FilledSteps ==
  ASSUME NEW v, NEW t, UpdateFilled(v, t)
  PROVE  /\ t # <<>> /\ UpdateWriting(v, Tail(t))
         /\ (v = 2 /\ Head(t) = "FLWR") \/ (v = 3 /\ Head(t) = "FLPBCLR")
  <1>1. CASE v = 2 /\ t = <<"FLWR", "write", "wait", "NOOP", "nextUpdate">>
    BY <1>1 DEF UpdateWriting
  <1>2. CASE v = 3 /\ t = <<"FLPBCLR", "write", "FLPW", "wait", "nextUpdate">>
    BY <1>2 DEF UpdateWriting
  <1>3. QED
    BY <1>1, <1>2 DEF UpdateFilled

\* For one that stores.
LEMMA WritingSteps ==
  ASSUME NEW v, NEW t, UpdateWriting(v, t)
  PROVE  /\ t # <<>> /\ Head(t) = "write"
         /\ IF v = 2 THEN UpdateOver(Tail(t)) ELSE UpdateWritten(v, Tail(t))
  <1>1. CASE v = 2 /\ t = <<"write", "wait", "NOOP", "nextUpdate">>
    BY <1>1 DEF UpdateOver, UpdateWritten
  <1>2. CASE v # 2 /\ t = <<"write", "FLPW", "wait", "nextUpdate">>
    BY <1>2 DEF UpdateOver, UpdateWritten
  <1>3. QED
    BY <1>1, <1>2 DEF UpdateWriting

\* For one that has stored.
LEMMA WrittenSteps ==
  ASSUME NEW v, NEW t, UpdateWritten(v, t)
  PROVE  t # <<>> /\ Head(t) = "FLPW" /\ UpdateOver(Tail(t))
  <1>1. CASE v # 2 /\ t = <<"FLPW", "wait", "nextUpdate">>
    BY <1>1 DEF UpdateOver, UpdateWritten
  <1>2. QED
    BY <1>1 DEF UpdateWritten

\* For a row before its stores.
LEMMA RowBegunSteps ==
  ASSUME NEW v, NEW wipe, NEW t, RowBegun(v, wipe, t)
  PROVE  /\ t # <<>>
         /\ \/ Head(t) \in {"wait", "NOOP"} /\ v = 3 /\ (RowBegun(v, wipe, Tail(t)) \/ RowStoring(v, wipe, Tail(t)))
            \/ Head(t) = "wait" /\ v = 2 /\ RowBegun(v, wipe, Tail(t))
            \/ Head(t) = "FLWR" /\ v = 2 /\ RowStoring(v, wipe, Tail(t))
  <1>1. CASE v = 2 /\ ~wipe /\ t = BootSaveDx
    BY <1>1 DEF RowBegun, RowStoring, BootSaveDx
  <1>2. CASE v = 2 /\ ~wipe /\ t = UserSave2
    BY <1>2 DEF RowBegun, RowStoring, UserSave2
  <1>3. CASE v = 2 /\ ~wipe /\ t = <<"FLWR", "store", "wait", "NOOP">>
    BY <1>3 DEF RowBegun, RowStoring
  <1>4. CASE v = 2 /\ ~wipe /\ t = <<"FLWR", "store", "NOOP", "wait">>
    BY <1>4 DEF RowBegun, RowStoring
  <1>5. CASE v = 3 /\ ~wipe /\ t = UserSave3
    BY <1>5 DEF RowBegun, RowStoring, UserSave3
  <1>6. CASE v = 3 /\ ~wipe /\ t = <<"NOOP", "store", "FLPW", "wait">>
    BY <1>6 DEF RowBegun, RowStoring
  <1>7. CASE v = 3 /\ wipe /\ t = BootSaveEx
    BY <1>7 DEF RowBegun, RowStoring, BootSaveEx
  <1>8. CASE v = 3 /\ wipe /\ t = <<"NOOP", "store", "FLPERW", "wait">>
    BY <1>8 DEF RowBegun, RowStoring
  <1>9. QED
    BY <1>1, <1>2, <1>3, <1>4, <1>5, <1>6, <1>7, <1>8 DEF RowBegun

\* For one between them.
LEMMA StoringSteps ==
  ASSUME NEW v, NEW wipe, NEW t, RowStoring(v, wipe, t)
  PROVE  /\ t # <<>> /\ Head(t) = "store"
         /\ IF v = 2 THEN RowOver(Tail(t)) ELSE RowStored(v, wipe, Tail(t))
  <1>1. CASE v = 2 /\ ~wipe /\ t = <<"store", "wait", "NOOP">>
    BY <1>1 DEF RowOver, RowStored
  <1>2. CASE v = 2 /\ ~wipe /\ t = <<"store", "NOOP", "wait">>
    BY <1>2 DEF RowOver, RowStored
  <1>3. CASE v # 2 /\ ~wipe /\ t = <<"store", "FLPW", "wait">>
    BY <1>3 DEF RowOver, RowStored
  <1>4. CASE v # 2 /\ wipe /\ t = <<"store", "FLPERW", "wait">>
    BY <1>4 DEF RowOver, RowStored
  <1>5. QED
    BY <1>1, <1>2, <1>3, <1>4 DEF RowStoring

\* For one whose stores are made.
LEMMA StoredSteps ==
  ASSUME NEW v, NEW wipe, NEW t, RowStored(v, wipe, t)
  PROVE  t # <<>> /\ v # 2 /\ RowOver(Tail(t)) /\ Head(t) = IF wipe THEN "FLPERW" ELSE "FLPW"
  <1>1. CASE v # 2 /\ ~wipe /\ t = <<"FLPW", "wait">>
    BY <1>1 DEF RowOver
  <1>2. CASE v # 2 /\ wipe /\ t = <<"FLPERW", "wait">>
    BY <1>2 DEF RowOver
  <1>3. QED
    BY <1>1, <1>2 DEF RowStored

\* A script behind a wait.
LEMMA Behind ==
  ASSUME NEW S, NEW s \in Seq(S)
  PROVE  <<"wait">> \o s # <<>> /\ Head(<<"wait">> \o s) = "wait" /\ Tail(<<"wait">> \o s) = s
  BY SMTT(60)

\* Behind the wait of versions 2 and 4.
LEMMA BegunSteps ==
  ASSUME NEW v, NEW t, UpdateBegun(v, t), ~UpdateFill(v, t)
  PROVE  v = 2 /\ t # <<>> /\ Head(t) = "wait" /\ UpdateFill(v, Tail(t))
  <1>1. v = 2 /\ t = <<"wait">> \o UpdateDx
    BY DEF UpdateBegun
  <1>2. UpdateDx \in Seq({"wait", "fill", "FLWR", "write", "NOOP", "nextUpdate"})
    BY DEF UpdateDx
  <1>3. t # <<>> /\ Head(t) = "wait" /\ Tail(t) = UpdateDx
    BY <1>1, <1>2, Behind, Zenon
  <1>4. QED
    BY <1>1, <1>3 DEF UpdateFill

-----------------------------------------------------------------------------
(* Pages.                                                                  *)

\* Products of naturals, and what a division leaves.
LEMMA Mono ==
  ASSUME NEW p \in Nat, NEW q \in Int, NEW r \in Int, q <= r
  PROVE  p * q <= p * r
  BY SMT

\* A number is what \div and % make of it.
LEMMA DivMod ==
  ASSUME NEW p \in Nat \ {0}, NEW x \in Nat
  PROVE  x = p * (x \div p) + (x % p) /\ 0 <= x % p /\ x % p < p /\ x \div p \in Nat /\ x % p \in Nat
  BY SMT

\* And they make it of nothing else.
LEMMA DivIs ==
  ASSUME NEW p \in Nat \ {0}, NEW q \in Nat, NEW s \in Nat, s < p
  PROVE  (p * q + s) \div p = q /\ (p * q + s) % p = s
  BY SMT

\* The page after one.
LEMMA NextPage ==
  ASSUME NEW p \in Nat \ {0}, NEW t \in Nat, t % p = 0
  PROVE  (t + p) % p = 0
  <1>1. PICK q \in Nat : q = t \div p /\ t = p * q
    BY DivMod
  <1>2. PICK r \in Nat : r = q + 1
    OBVIOUS
  <1>3. t + p = p * r + 0
    BY <1>1, <1>2, SMT
  <1>4. (p * r + 0) % p = 0
    BY DivIs
  <1>5. QED
    BY <1>3, <1>4

\* A page is p addresses from a multiple of p on.
LEMMA PageOf ==
  ASSUME NEW p \in Nat \ {0}, NEW t \in Nat, t % p = 0, NEW i \in Nat
  PROVE  /\ i \div p = t \div p <=> t <= i /\ i < t + p
         /\ t <= i /\ i < t + p => i % p = i - t
  <1>1. PICK q \in Nat : q = t \div p /\ t = p * q
    BY DivMod
  <1>2. i \div p = q => t <= i /\ i < t + p
    BY <1>1, DivMod, SMT
  <1>3. ASSUME t <= i, i < t + p PROVE i \div p = q /\ i % p = i - t
    <2>1. PICK s \in Int : s = i - t
      BY SMT
    <2>2. s \in Nat /\ s < p /\ i = p * q + s
      BY <1>1, <1>3, <2>1, SMT
    <2>3. (p * q + s) \div p = q /\ (p * q + s) % p = s
      BY <2>2, DivIs
    <2>4. QED
      BY <2>1, <2>2, <2>3
  <1>4. QED
    BY <1>1, <1>2, <1>3

Areas == {"flash", "boot", "user"}

\* The sizes.
LEMMA Sizes0 ==
  /\ PageSize \in Nat \ {0} /\ PageSize >= 4 /\ Pages \in Nat \ {0}
  /\ RowSize \in Nat /\ 1 <= RowSize /\ RowSize <= PageSize
  /\ PageSize \div 2 \in Nat /\ 2 * (PageSize \div 2) = PageSize
  BY NvmAssumption, SMT

\* The addresses.
LEMMA Locs ==
  /\ \A l \in Loc : /\ l = <<l[1], l[2]>> /\ l[1] \in Areas /\ l[2] \in Nat
                    /\ l[1] # "flash" => l[2] < RowSize
                    /\ l[1] = "flash" => l[2] < Pages * PageSize
  /\ \A i \in Nat : /\ i < Pages * PageSize => <<"flash", i>> \in Loc
                    /\ i < RowSize => <<"boot", i>> \in Loc /\ <<"user", i>> \in Loc
  <1>1. PageSize \in Nat /\ Pages \in Nat /\ RowSize \in Nat /\ Pages * PageSize \in Nat
    BY Sizes0, SMT
  <1>2. ASSUME NEW l \in Loc
        PROVE  /\ l = <<l[1], l[2]>> /\ l[1] \in Areas /\ l[2] \in Nat
               /\ l[1] # "flash" => l[2] < RowSize
               /\ l[1] = "flash" => l[2] < Pages * PageSize
    <2>1. CASE \E i \in 0 .. Pages * PageSize - 1 : l = <<"flash", i>>
      BY <1>1, <2>1 DEF Areas
    <2>2. CASE \E r \in {"boot", "user"}, i \in 0 .. RowSize - 1 : l = <<r, i>>
      BY <1>1, <2>2 DEF Areas
    <2>3. QED
      BY <2>1, <2>2 DEF Loc
  <1>3. ASSUME NEW i \in Nat
        PROVE  /\ i < Pages * PageSize => <<"flash", i>> \in Loc
               /\ i < RowSize => <<"boot", i>> \in Loc /\ <<"user", i>> \in Loc
    BY <1>1 DEF Loc
  <1>4. QED
    BY <1>2, <1>3

\* The addresses of the page from t on, and their places in it.
LEMMA UnitOf ==
  ASSUME NEW t \in Nat, t % PageSize = 0, NEW l \in Loc, t <= l[2], l[2] < t + PageSize
  PROVE  /\ \A k \in Loc : k \in Unit(l) <=> k[1] = l[1] /\ t <= k[2] /\ k[2] < t + PageSize
         /\ \A k \in Loc : t <= k[2] /\ k[2] < t + PageSize => Slot(k) = k[2] - t
  <1>1. PageSize \in Nat \ {0} /\ l[2] \in Nat /\ \A k \in Loc : k[2] \in Nat
    BY Sizes0, Locs
  <1>2. l[2] \div PageSize = t \div PageSize
    BY <1>1, PageOf
  <1>3. \A k \in Loc : /\ k[2] \div PageSize = t \div PageSize <=> t <= k[2] /\ k[2] < t + PageSize
                       /\ t <= k[2] /\ k[2] < t + PageSize => k[2] % PageSize = k[2] - t
    BY <1>1, PageOf
  <1>4. QED
    BY <1>2, <1>3 DEF Unit, Slot

\* A page that begins in memory lies in it.
LEMMA PageFits ==
  ASSUME NEW t \in Nat, t % PageSize = 0, t < Pages * PageSize
  PROVE  t + PageSize <= Pages * PageSize
  <1>1. PageSize \in Nat \ {0} /\ Pages \in Nat
    BY Sizes0
  <1>2. PICK q \in Nat : t = PageSize * q
    BY <1>1, DivMod
  <1>3. q < Pages
    <2>1. SUFFICES ASSUME Pages <= q PROVE FALSE
      BY <1>1, SMT
    <2>2. PageSize * Pages <= PageSize * q
      BY <1>1, <2>1, Mono
    <2>3. QED
      BY <1>1, <1>2, <2>2, SMT
  <1>4. PageSize * (q + 1) <= PageSize * Pages
    BY <1>1, <1>3, Mono
  <1>5. PageSize * (q + 1) = PageSize * q + PageSize /\ PageSize * Pages = Pages * PageSize
    BY <1>1, SMT
  <1>6. QED
    BY <1>1, <1>2, <1>4, <1>5, SMT

\* Bytes: what their intersection keeps.
LEMMA Bytes ==
  ASSUME NEW b \in Byte, NEW c \in Byte
  PROVE  /\ Erased \in Byte /\ b \cap c \in Byte
         /\ b \cap Erased = b /\ Erased \cap b = b /\ (b \cap c) \cap c = b \cap c
  BY DEF Byte, Erased

-----------------------------------------------------------------------------
(* The state, as far as it is the same for all calls.                      *)

Places == 0 .. PageSize - 1

CallType ==
  /\ call = [script |-> call.script, area |-> call.area, top |-> call.top, off |-> call.off,
             data |-> call.data, size |-> call.size]
  /\ call.area \in Areas /\ call.top \in Nat /\ call.off \in Nat
  /\ call.data \in Seq(Byte) /\ call.size \in Nat

NvmType ==
  /\ ver \in {0, 2, 3} /\ mem \in [Loc -> Byte] /\ at \in Loc /\ pbuf \in [Places -> Byte]

Types == NvmType /\ CallType /\ buf \in [Places -> Byte] /\ word \in Nat /\ DOMAIN want \subseteq Loc

\* The page of the round, and where the controller was told to work.
OnPage(l) == l[1] = call.area /\ call.top <= l[2] /\ l[2] < call.top + PageSize

Place ==
  /\ call.top % PageSize = 0
  /\ IF call.area = "flash" THEN call.top + PageSize <= Pages * PageSize ELSE call.top = 0
  /\ \A l \in DOMAIN want : l[1] = call.area

\* What is left to do begins at n.
Done(n) == \A l \in DOMAIN want : l[2] < n => mem[l] \in want[l]

\* But for the dummy byte the page buffer of version 3 is empty between the pages.
Spare == ver # 2 => \A i \in Places : i # 0 => pbuf[i] = Erased

-----------------------------------------------------------------------------
(* The steps, by the name that is next.                                    *)

\* The name that is next says which step is taken.
LEMMA ByName ==
  ASSUME Steps
  PROVE  /\ Head(todo) = "wait" => nvm_wait
         /\ Head(todo) \in {"NOOP", "FLPER", "FLWR", "FLPW", "FLPERW", "FLPBCLR"} => nvm_cmd
         /\ Head(todo) = "dummy" => nvm_stc
         /\ Head(todo) = "write" => nvm_write
         /\ Head(todo) = "store" => nvm_stz
         /\ Head(todo) = "fill" => Fill
         /\ Head(todo) = "nextErase" => NextErase
         /\ Head(todo) = "nextUpdate" => NextUpdate
         /\ ver' = ver /\ want' = want /\ todo # <<>>
  <1>1. /\ Head(todo) = "wait" => nvm_wait
        /\ Head(todo) \in {"NOOP", "FLPER", "FLWR", "FLPW", "FLPERW", "FLPBCLR"} => nvm_cmd
        /\ Head(todo) = "dummy" => nvm_stc
        /\ Head(todo) = "write" => nvm_write
        /\ Head(todo) = "store" => nvm_stz
        /\ Head(todo) = "fill" => Fill
        /\ Head(todo) = "nextErase" => NextErase
        /\ Head(todo) = "nextUpdate" => NextUpdate
        /\ todo # <<>>
    BY DEF Steps, nvm_wait, nvm_cmd, nvm_stc, nvm_write, nvm_stz, Fill, NextErase, NextUpdate, Step, Idle
  <1>2. ver' = ver /\ want' = want
    <2>1. CASE nvm_wait
      BY <2>1 DEF nvm_wait, nvm
    <2>2. CASE nvm_cmd
      BY <2>2 DEF nvm_cmd, Command
    <2>3. CASE nvm_stc
      BY <2>3 DEF nvm_stc, Put
    <2>4. CASE nvm_write
      BY <2>4 DEF nvm_write, Put
    <2>5. CASE nvm_stz
      BY <2>5 DEF nvm_stz, Put
    <2>6. CASE Fill
      BY <2>6 DEF Fill, nvm
    <2>7. CASE NextErase
      BY <2>7 DEF NextErase, nvm
    <2>8. CASE NextUpdate
      BY <2>8 DEF NextUpdate, nvm
    <2>9. QED
      BY <2>1, <2>2, <2>3, <2>4, <2>5, <2>6, <2>7, <2>8 DEF Steps
  <1>3. QED
    BY <1>1, <1>2

\* A command of version 2 does nothing yet.
LEMMA CommandNow ==
  ASSUME Types, nvm_cmd, ver = 2
  PROVE  /\ mem' = mem /\ pbuf' = pbuf /\ at' = at /\ cmd' = Head(todo) /\ todo' = Tail(todo)
         /\ call' = call /\ buf' = buf /\ word' = word
  BY DEF nvm_cmd, Command, Buffered

\* A command of the others, with the page it works on.
LEMMA CommandThen ==
  ASSUME Types, nvm_cmd, ver # 2
  PROVE  /\ at' = at /\ todo' = Tail(todo) /\ call' = call /\ buf' = buf /\ word' = word
         /\ Head(todo) = "NOOP" => mem' = mem /\ pbuf' = pbuf
         /\ Head(todo) = "FLPBCLR" => mem' = mem /\ pbuf' = NoBuffer
         /\ Head(todo) = "FLPER" => pbuf' = pbuf
         /\ Head(todo) \in {"FLPW", "FLPERW"} => pbuf' = NoBuffer
         /\ mem' \in [Loc -> Byte] /\ pbuf' \in [Places -> Byte]
         /\ Place /\ OnPage(at) =>
              /\ \A l \in Loc : ~OnPage(l) => mem'[l] = mem[l]
              /\ \A l \in Loc : OnPage(l) =>
                   /\ Head(todo) = "FLPER" => mem'[l] = Erased
                   /\ Head(todo) = "FLPW" => mem'[l] = mem[l] \cap pbuf[l[2] - call.top]
                   /\ Head(todo) = "FLPERW" => mem'[l] = pbuf[l[2] - call.top]
  <1> DEFINE h == Head(todo)
             New(l) == (IF h \in Erases THEN Erased ELSE mem[l])
                       \cap (IF h \in Writes THEN pbuf[Slot(l)] ELSE Bits)
  <1>1. /\ at' = at /\ todo' = Tail(todo) /\ call' = call /\ buf' = buf /\ word' = word
        /\ pbuf' = IF h \in Writes \cup {"FLPBCLR"} THEN NoBuffer ELSE pbuf
        /\ mem' = [l \in Loc |-> IF l \notin Unit(at) THEN mem[l] ELSE New(l)]
        /\ h \in {"NOOP", "FLPER", "FLWR", "FLPW", "FLPERW", "FLPBCLR"}
    BY DEF Types, NvmType, nvm_cmd, Command, Buffered
  <1>2. mem \in [Loc -> Byte] /\ pbuf \in [Places -> Byte] /\ PageSize \in Nat \ {0}
    BY Sizes0 DEF Types, NvmType
  <1>3. NoBuffer \in [Places -> Byte]
    BY DEF NoBuffer, Places, Byte, Erased
  <1>4. \A l \in Loc : l[2] \in Nat /\ Slot(l) \in Places /\ pbuf[Slot(l)] \in Byte /\ mem[l] \in Byte
    <2> SUFFICES ASSUME NEW l \in Loc
                 PROVE  l[2] \in Nat /\ Slot(l) \in Places /\ pbuf[Slot(l)] \in Byte /\ mem[l] \in Byte
      OBVIOUS
    <2>1. l[2] \in Nat
      BY Locs
    <2>2. Slot(l) \in Nat /\ Slot(l) < PageSize
      BY <1>2, <2>1, DivMod DEF Slot
    <2>3. QED
      BY <1>2, <2>1, <2>2 DEF Places
  <1>5. \A l \in Loc : /\ New(l) \in Byte
                       /\ h \in {"NOOP", "FLPBCLR"} => New(l) = mem[l]
                       /\ h = "FLPER" => New(l) = Erased
                       /\ h = "FLPW" => New(l) = mem[l] \cap pbuf[Slot(l)]
                       /\ h = "FLPERW" => New(l) = pbuf[Slot(l)]
    <2> SUFFICES ASSUME NEW l \in Loc
                 PROVE  /\ New(l) \in Byte
                        /\ h \in {"NOOP", "FLPBCLR"} => New(l) = mem[l]
                        /\ h = "FLPER" => New(l) = Erased
                        /\ h = "FLPW" => New(l) = mem[l] \cap pbuf[Slot(l)]
                        /\ h = "FLPERW" => New(l) = pbuf[Slot(l)]
      OBVIOUS
    <2>1. Erased = Bits /\ Erased \in Byte
      BY DEF Erased, Byte
    <2>2. PICK b \in Byte, c \in Byte : b = mem[l] /\ c = pbuf[Slot(l)]
      BY <1>4
    <2>3. /\ b \cap Bits = b /\ Bits \cap c = c /\ Bits \cap Bits = Bits /\ b \cap c \in Byte
      BY DEF Byte
    <2>4. QED
      BY <2>1, <2>2, <2>3 DEF Erases, Writes
  <1> HIDE DEF New
  <1>6. mem' \in [Loc -> Byte] /\ pbuf' \in [Places -> Byte]
    BY <1>1, <1>2, <1>3, <1>5
  <1>7. h \in {"NOOP", "FLPBCLR"} => mem' = mem
    BY <1>1, <1>2, <1>5
  <1>8. ASSUME Place, OnPage(at), NEW l \in Loc
        PROVE  /\ ~OnPage(l) => mem'[l] = mem[l]
               /\ OnPage(l) =>
                    /\ h = "FLPER" => mem'[l] = Erased
                    /\ h = "FLPW" => mem'[l] = mem[l] \cap pbuf[l[2] - call.top]
                    /\ h = "FLPERW" => mem'[l] = pbuf[l[2] - call.top]
    <2>1. call.top \in Nat /\ call.top % PageSize = 0 /\ at \in Loc
          /\ call.top <= at[2] /\ at[2] < call.top + PageSize /\ at[1] = call.area
      BY <1>8 DEF Types, NvmType, CallType, Place, OnPage
    <2>2. /\ l \in Unit(at) <=> l[1] = at[1] /\ call.top <= l[2] /\ l[2] < call.top + PageSize
          /\ call.top <= l[2] /\ l[2] < call.top + PageSize => Slot(l) = l[2] - call.top
      BY <2>1, UnitOf
    <2>3. l \in Unit(at) <=> OnPage(l)
      BY <2>1, <2>2 DEF OnPage
    <2>4. OnPage(l) => Slot(l) = l[2] - call.top
      BY <2>2 DEF OnPage
    <2>5. mem'[l] = IF l \notin Unit(at) THEN mem[l] ELSE New(l)
      BY <1>1
    <2>6. QED
      BY <1>5, <2>3, <2>4, <2>5
  <1>9. QED
    BY <1>1, <1>6, <1>7, <1>8 DEF Writes

\* An address of the page.
LEMMA AddrIn ==
  ASSUME Types, Place, NEW i \in Nat, i < PageSize, call.area # "flash" => i < RowSize
  PROVE  /\ Addr(i) \in Loc /\ OnPage(Addr(i)) /\ Addr(i)[1] = call.area /\ Addr(i)[2] = call.top + i
         /\ Slot(Addr(i)) = i
  <1>1. /\ call.top \in Nat /\ call.top % PageSize = 0 /\ call.area \in {"flash", "boot", "user"}
        /\ call.area = "flash" => call.top + PageSize <= Pages * PageSize
        /\ call.area # "flash" => call.top = 0
    BY DEF Types, CallType, Place, Areas
  <1>2. PageSize \in Nat \ {0} /\ Pages * PageSize \in Int /\ call.top + i \in Nat
    BY <1>1, Sizes0, SMT
  <1>3. Addr(i) \in Loc
    <2>1. CASE call.area = "flash"
      <3>1. call.top + i < Pages * PageSize
        BY <1>1, <1>2, <2>1, SMT
      <3>2. QED
        BY <1>2, <2>1, <3>1, Locs DEF Addr
    <2>2. CASE call.area # "flash"
      <3>1. call.top + i < RowSize
        BY <1>1, <2>2, SMT
      <3>2. QED
        BY <1>1, <1>2, <2>2, <3>1, Locs DEF Addr
    <2>3. QED
      BY <2>1, <2>2
  <1>4. Addr(i)[1] = call.area /\ Addr(i)[2] = call.top + i
    BY DEF Addr
  <1>5. OnPage(Addr(i))
    BY <1>1, <1>2, <1>4 DEF OnPage
  <1>6. (call.top + i) % PageSize = i
    <2>1. PICK x \in Nat : x = call.top + i
      BY <1>2
    <2>2. call.top <= x /\ x < call.top + PageSize /\ x - call.top = i
      BY <1>1, <1>2, <2>1
    <2>3. x % PageSize = x - call.top
      BY <1>1, <1>2, <2>2, PageOf
    <2>4. QED
      BY <2>1, <2>2, <2>3
  <1>7. QED
    BY <1>3, <1>4, <1>5, <1>6 DEF Slot

\* A store of version 2 acts at once.
LEMMA PutNow ==
  ASSUME Types, NEW w, Put(w), ver = 2, DOMAIN w # {}, DOMAIN w \subseteq Loc,
         \A l \in DOMAIN w : w[l] \in Byte
  PROVE  /\ at' \in DOMAIN w /\ pbuf' = pbuf /\ cmd' = cmd /\ mem' \in [Loc -> Byte]
         /\ \A l \in Loc :
              /\ cmd = "FLPER" => mem'[l] = IF l \in Unit(at') THEN Erased ELSE mem[l]
              /\ cmd = "FLWR" => mem'[l] = IF l \in DOMAIN w THEN mem[l] \cap w[l] ELSE mem[l]
  <1>1. /\ at' = (CHOOSE l \in DOMAIN w : TRUE) /\ pbuf' = pbuf /\ cmd' = cmd
        /\ mem' = [l \in Loc |->
             CASE cmd = "FLPER" /\ l \in Unit(at') -> Erased
               [] cmd = "FLWR" /\ l \in DOMAIN w   -> mem[l] \cap w[l]
               [] OTHER                            -> mem[l]]
    BY DEF Put, Buffered
  <1>2. at' \in DOMAIN w
    BY <1>1
  <1>3. ASSUME NEW l \in Loc
        PROVE  /\ cmd = "FLPER" => mem'[l] = IF l \in Unit(at') THEN Erased ELSE mem[l]
               /\ cmd = "FLWR" => mem'[l] = IF l \in DOMAIN w THEN mem[l] \cap w[l] ELSE mem[l]
    <2>1. mem'[l] = CASE cmd = "FLPER" /\ l \in Unit(at') -> Erased
                      [] cmd = "FLWR" /\ l \in DOMAIN w   -> mem[l] \cap w[l]
                      [] OTHER                            -> mem[l]
      BY <1>1
    <2>2. QED
      BY <2>1
  <1>4. ASSUME NEW l \in Loc PROVE mem'[l] \in Byte
    <2>1. \/ mem'[l] = Erased
          \/ l \in DOMAIN w /\ mem'[l] = mem[l] \cap w[l]
          \/ mem'[l] = mem[l]
      BY <1>1
    <2>2. mem[l] \in Byte /\ (l \in DOMAIN w => w[l] \in Byte)
      BY DEF Types, NvmType
    <2>3. l \in DOMAIN w => mem[l] \cap w[l] \in Byte
      BY <2>2, Bytes
    <2>4. QED
      BY <2>1, <2>2, <2>3, Bytes
  <1>5. mem' \in [Loc -> Byte]
    BY <1>1, <1>4
  <1>6. QED
    BY <1>1, <1>2, <1>3, <1>5

\* A store of the others goes to the page buffer.
LEMMA PutThen ==
  ASSUME Types, NEW w, Put(w), ver # 2, DOMAIN w # {},
         \A l \in DOMAIN w : Slot(l) \in Places /\ w[l] \in Byte,
         \A l, k \in DOMAIN w : Slot(l) = Slot(k) => l = k
  PROVE  /\ at' \in DOMAIN w /\ mem' = mem /\ pbuf' \in [Places -> Byte]
         /\ \A l \in DOMAIN w : pbuf'[Slot(l)] = w[l]
         /\ \A i \in Places : (\A l \in DOMAIN w : Slot(l) # i) => pbuf'[i] = pbuf[i]
  <1> DEFINE At(i) == {l \in DOMAIN w : Slot(l) = i}
  <1>1. /\ at' = (CHOOSE l \in DOMAIN w : TRUE) /\ mem' = mem
        /\ pbuf' = [i \in Places |-> IF At(i) = {} THEN pbuf[i] ELSE w[CHOOSE l \in At(i) : TRUE]]
    BY DEF Put, Buffered, Types, NvmType
  <1>2. at' \in DOMAIN w
    BY <1>1
  <1>3. ASSUME NEW i \in Places PROVE pbuf'[i] \in Byte /\ (At(i) = {} => pbuf'[i] = pbuf[i])
    <2>1. CASE At(i) = {}
      BY <1>1, <2>1 DEF Types, NvmType
    <2>2. CASE At(i) # {}
      <3>1. (CHOOSE l \in At(i) : TRUE) \in At(i)
        BY <2>2
      <3>2. QED
        BY <1>1, <2>2, <3>1
    <2>3. QED
      BY <2>1, <2>2
  <1>4. ASSUME NEW l \in DOMAIN w PROVE pbuf'[Slot(l)] = w[l]
    <2>1. At(Slot(l)) = {l}
      OBVIOUS
    <2>2. (CHOOSE k \in At(Slot(l)) : TRUE) = l
      BY <2>1
    <2>3. QED
      BY <1>1, <2>1, <2>2
  <1>5. pbuf' \in [Places -> Byte]
    BY <1>1, <1>3
  <1>6. QED
    BY <1>1, <1>2, <1>3, <1>4, <1>5

\* The dummy byte.
LEMMA Dummy ==
  ASSUME Types, Place, nvm_stc
  PROVE  /\ at' \in Loc /\ OnPage(at') /\ todo' = Tail(todo) /\ call' = call /\ buf' = buf /\ word' = word
         /\ ver = 2 /\ cmd = "FLPER" =>
              /\ pbuf' = pbuf /\ mem' \in [Loc -> Byte]
              /\ \A l \in Loc : mem'[l] = IF OnPage(l) THEN Erased ELSE mem[l]
         /\ ver # 2 => /\ mem' = mem /\ pbuf' \in [Places -> Byte]
                       /\ \A i \in Places : i # 0 => pbuf'[i] = pbuf[i]
  <1>1. PICK b \in Byte : Put([l \in {Addr(0)} |-> b])
    BY DEF nvm_stc
  <1>2. todo' = Tail(todo) /\ call' = call /\ buf' = buf /\ word' = word
    BY DEF nvm_stc
  <1>3. /\ Addr(0) \in Loc /\ OnPage(Addr(0)) /\ Slot(Addr(0)) = 0 /\ 0 \in Places
    <2>1. PageSize \in Nat \ {0} /\ RowSize \in Nat /\ 0 < RowSize
      BY Sizes0
    <2>2. QED
      BY <2>1, AddrIn DEF Places
  <1> DEFINE w == [l \in {Addr(0)} |-> b]
  <1>4. DOMAIN w = {Addr(0)} /\ w[Addr(0)] = b
    OBVIOUS
  <1>5. Put(w)
    BY <1>1
  <1> HIDE DEF w
  <1>6. CASE ver = 2
    <2>1. /\ at' \in DOMAIN w /\ pbuf' = pbuf /\ mem' \in [Loc -> Byte]
          /\ \A l \in Loc : cmd = "FLPER" => mem'[l] = IF l \in Unit(at') THEN Erased ELSE mem[l]
      BY <1>3, <1>4, <1>5, <1>6, PutNow
    <2>2. at' = Addr(0)
      BY <1>4, <2>1
    <2>3. /\ call.top \in Nat /\ call.top % PageSize = 0 /\ Addr(0)[1] = call.area
          /\ call.top <= Addr(0)[2] /\ Addr(0)[2] < call.top + PageSize
      BY <1>3 DEF Types, CallType, Place, OnPage
    <2>4. \A l \in Loc : l \in Unit(Addr(0)) <=> l[1] = call.area /\ call.top <= l[2] /\ l[2] < call.top + PageSize
      BY <1>3, <2>3, UnitOf
    <2>5. \A l \in Loc : l \in Unit(at') <=> OnPage(l)
      BY <2>2, <2>4 DEF OnPage
    <2>6. QED
      BY <1>2, <1>3, <1>6, <2>1, <2>2, <2>5
  <1>7. CASE ver # 2
    <2>1. /\ at' \in DOMAIN w /\ mem' = mem /\ pbuf' \in [Places -> Byte]
          /\ \A i \in Places : (\A l \in DOMAIN w : Slot(l) # i) => pbuf'[i] = pbuf[i]
      BY <1>3, <1>4, <1>5, <1>7, PutThen
    <2>2. QED
      BY <1>2, <1>3, <1>4, <1>7, <2>1
  <1>8. QED
    BY <1>6, <1>7

\* A round of nvm_write: one byte or two, from the buffer.
LEMMA Written ==
  ASSUME Types, Place, call.area = "flash", nvm_write, word < Rounds
  PROVE  /\ at' \in Loc /\ OnPage(at') /\ call' = call /\ buf' = buf
         /\ IF word + 1 = Rounds THEN todo' = Tail(todo) /\ word' = 0 ELSE todo' = todo /\ word' = word + 1
         /\ ver = 2 /\ cmd = "FLWR" =>
              /\ pbuf' = pbuf /\ cmd' = cmd /\ mem' \in [Loc -> Byte]
              /\ \A l \in Loc : mem'[l] = IF OnPage(l) /\ l[2] - call.top \in 2 * word .. 2 * word + 1
                                          THEN mem[l] \cap buf[l[2] - call.top] ELSE mem[l]
         /\ ver # 2 =>
              /\ mem' = mem /\ pbuf' \in [Places -> Byte]
              /\ \A i \in Places : pbuf'[i] = IF i \in Width * word .. Width * word + Width - 1
                                              THEN buf[i] ELSE pbuf[i]
  <1>1. PICK x \in Nat : x = Width * word
    <2>1. Width \in {1, 2} /\ word \in Nat
      BY DEF Width, Types
    <2>2. QED
      BY <2>1, SMT
  <1>2. /\ x + Width <= PageSize /\ Width \in {1, 2} /\ (ver = 2 => Width = 2 /\ x = 2 * word)
        /\ PageSize \in Nat \ {0}
    <2>1. /\ PageSize \in Nat \ {0} /\ PageSize \div 2 \in Nat /\ 2 * (PageSize \div 2) = PageSize
          /\ word \in Nat /\ word < PageSize \div 2
      BY Sizes0 DEF Types, Rounds
    <2>2. PICK r \in Nat : r = PageSize \div 2
      BY <2>1
    <2>3. 2 * r = PageSize /\ word + 1 <= r
      BY <2>1, <2>2
    <2>4. CASE ver = 0
      <3>1. Width = 1
        BY <2>4 DEF Width
      <3>2. QED
        BY <1>1, <2>1, <2>3, <2>4, <3>1
    <2>5. CASE ver # 0
      <3>1. Width = 2
        BY <2>5 DEF Width
      <3>2. QED
        BY <1>1, <2>1, <2>3, <3>1
    <2>6. QED
      BY <2>4, <2>5
  <1> DEFINE D == {Addr(x + i) : i \in 0 .. Width - 1}
             w == [l \in D |-> buf[Slot(l)]]
  <1>3. /\ Put(w) /\ call' = call /\ buf' = buf
        /\ IF word + 1 = Rounds THEN todo' = Tail(todo) /\ word' = 0 ELSE todo' = todo /\ word' = word + 1
    BY <1>1 DEF nvm_write
  <1>4. ASSUME NEW i \in 0 .. Width - 1
        PROVE  /\ x + i \in Places /\ Addr(x + i) \in Loc /\ OnPage(Addr(x + i)) /\ Slot(Addr(x + i)) = x + i
               /\ Addr(x + i)[2] = call.top + (x + i)
    <2>1. PICK j \in Nat : j = x + i
      BY <1>2, SMT
    <2>2. j < PageSize /\ j \in Places
      BY <1>2, <2>1 DEF Places
    <2>3. QED
      BY <2>1, <2>2, AddrIn
  <1>5. DOMAIN w = D /\ D # {} /\ \A l \in D : /\ l \in Loc /\ OnPage(l) /\ Slot(l) \in Places
                                              /\ w[l] = buf[Slot(l)] /\ w[l] \in Byte
    <2>1. 0 \in 0 .. Width - 1
      BY <1>2
    <2>2. QED
      BY <1>4, <2>1 DEF Types
  <1>6. \A l, k \in D : Slot(l) = Slot(k) => l = k
    BY <1>4
  <1>7. ASSUME NEW l \in Loc
        PROVE  l \in D <=> OnPage(l) /\ l[2] - call.top \in x .. x + Width - 1
    <2>1. l = <<l[1], l[2]>> /\ l[2] \in Nat /\ call.top \in Nat
      BY Locs DEF Types, CallType
    <2>2. ASSUME l \in D PROVE OnPage(l) /\ l[2] - call.top \in x .. x + Width - 1
      <3>1. PICK i \in 0 .. Width - 1 : l = Addr(x + i)
        BY <2>2
      <3>2. l[2] = call.top + (x + i) /\ OnPage(l)
        BY <1>4, <3>1
      <3>3. QED
        BY <1>2, <2>1, <3>2
    <2>3. ASSUME OnPage(l), l[2] - call.top \in x .. x + Width - 1 PROVE l \in D
      <3>1. PICK t \in Nat, z \in Nat, n \in {1, 2} : t = call.top /\ z = l[2] /\ n = Width
        BY <1>2, <2>1
      <3> PICK y \in Int : y = z - t
        BY SMT
      <3>2. y \in x .. x + n - 1
        BY <2>3, <3>1
      <3>3. PICK i \in 0 .. n - 1 : y = x + i
        BY <3>2, SMT
      <3>4. t + (x + i) = z
        BY <3>3
      <3>5. l = Addr(x + i)
        BY <2>1, <2>3, <3>1, <3>4 DEF OnPage, Addr
      <3>6. QED
        BY <3>1, <3>3, <3>5
    <2>4. QED
      BY <2>2, <2>3
  <1> HIDE DEF w, D
  <1>8. CASE ver = 2
    <2>1. /\ at' \in D /\ pbuf' = pbuf /\ cmd' = cmd /\ mem' \in [Loc -> Byte]
          /\ \A l \in Loc : cmd = "FLWR" => mem'[l] = IF l \in D THEN mem[l] \cap w[l] ELSE mem[l]
      BY <1>3, <1>5, <1>8, PutNow
    <2>2. ASSUME NEW l \in Loc, cmd = "FLWR"
          PROVE  mem'[l] = IF OnPage(l) /\ l[2] - call.top \in 2 * word .. 2 * word + 1
                           THEN mem[l] \cap buf[l[2] - call.top] ELSE mem[l]
      <3>1. l \in D <=> OnPage(l) /\ l[2] - call.top \in 2 * word .. 2 * word + 1
        BY <1>2, <1>7, <1>8
      <3>2. l \in D => w[l] = buf[l[2] - call.top]
        <4>1. OnPage(l) => Slot(l) = l[2] - call.top
          BY UnitOf DEF Types, CallType, Place, OnPage
        <4>2. QED
          BY <1>5, <4>1
      <3>3. QED
        BY <2>1, <2>2, <3>1, <3>2
    <2>3. QED
      BY <1>3, <1>5, <1>8, <2>1, <2>2
  <1>9. CASE ver # 2
    <2>1. /\ at' \in D /\ mem' = mem /\ pbuf' \in [Places -> Byte]
          /\ \A l \in D : pbuf'[Slot(l)] = w[l]
          /\ \A i \in Places : (\A l \in D : Slot(l) # i) => pbuf'[i] = pbuf[i]
      BY <1>3, <1>5, <1>6, <1>9, PutThen
    <2>2. ASSUME NEW i \in Places
          PROVE  pbuf'[i] = IF i \in Width * word .. Width * word + Width - 1 THEN buf[i] ELSE pbuf[i]
      <3>1. CASE i \in x .. x + Width - 1
        <4>1. PICK j \in Int : j = i - x
          BY <3>1 DEF Places
        <4>2. j \in 0 .. Width - 1 /\ x + j = i
          BY <1>2, <3>1, <4>1
        <4>3. Addr(i) \in D /\ Slot(Addr(i)) = i
          BY <1>4, <4>2 DEF D
        <4>4. QED
          BY <1>1, <1>5, <2>1, <3>1, <4>3
      <3>2. CASE i \notin x .. x + Width - 1
        <4>1. \A l \in D : Slot(l) # i
          <5>1. SUFFICES ASSUME NEW j \in 0 .. Width - 1 PROVE Slot(Addr(x + j)) # i
            BY DEF D
          <5>2. QED
            BY <1>2, <1>4, <3>2
        <4>2. QED
          BY <1>1, <2>1, <3>2, <4>1
      <3>3. QED
        BY <3>1, <3>2
    <2>3. QED
      BY <1>3, <1>5, <1>9, <2>1, <2>2
  <1>10. QED
    BY <1>8, <1>9

\* A round of nvm_stz: a byte of the source, to a row.
LEMMA StoredByte ==
  ASSUME Types, Place, call.area # "flash", nvm_stz, word < Len(call.data), Len(call.data) <= RowSize
  PROVE  /\ at' \in Loc /\ OnPage(at') /\ call' = call /\ buf' = buf
         /\ IF word + 1 = Len(call.data) THEN todo' = Tail(todo) /\ word' = 0
                                         ELSE todo' = todo /\ word' = word + 1
         /\ ver = 2 /\ cmd = "FLWR" =>
              /\ pbuf' = pbuf /\ cmd' = cmd /\ mem' \in [Loc -> Byte]
              /\ \A l \in Loc : mem'[l] = IF l[1] = call.area /\ l[2] = word
                                          THEN mem[l] \cap call.data[word + 1] ELSE mem[l]
         /\ ver # 2 => /\ mem' = mem /\ pbuf' \in [Places -> Byte]
                       /\ \A i \in Places : pbuf'[i] = IF i = word THEN call.data[i + 1] ELSE pbuf[i]
  <1>1. /\ word \in Nat /\ Len(call.data) \in Nat /\ word < RowSize /\ word < PageSize
        /\ call.data[word + 1] \in Byte /\ call.top = 0 /\ word \in Places
    <2>1. call.data \in Seq(Byte) /\ word \in Nat /\ RowSize \in Nat /\ PageSize \in Nat /\ RowSize <= PageSize
      BY Sizes0 DEF Types, CallType
    <2>2. Len(call.data) \in Nat
      BY <2>1
    <2>3. word + 1 \in 1 .. Len(call.data) /\ word < RowSize /\ word < PageSize
      BY <2>1, <2>2
    <2>4. QED
      BY <2>1, <2>2, <2>3 DEF Place, Places
  <1> DEFINE w == [l \in {Addr(word)} |-> call.data[word + 1]]
  <1>2. /\ Put(w) /\ call' = call /\ buf' = buf
        /\ IF word + 1 = Len(call.data) THEN todo' = Tail(todo) /\ word' = 0
                                        ELSE todo' = todo /\ word' = word + 1
    BY DEF nvm_stz
  <1>3. DOMAIN w = {Addr(word)} /\ w[Addr(word)] = call.data[word + 1]
    OBVIOUS
  <1> HIDE DEF w
  <1>4. Addr(word) \in Loc /\ OnPage(Addr(word)) /\ Slot(Addr(word)) = word
    BY <1>1, AddrIn
  <1>5. \A l \in Loc : l = Addr(word) <=> l[1] = call.area /\ l[2] = word
    BY <1>1, Locs DEF Addr
  <1>6. CASE ver = 2
    <2>1. DOMAIN w # {} /\ DOMAIN w \subseteq Loc /\ \A l \in DOMAIN w : w[l] \in Byte
      BY <1>1, <1>3, <1>4
    <2>2. /\ at' \in DOMAIN w /\ pbuf' = pbuf /\ cmd' = cmd /\ mem' \in [Loc -> Byte]
          /\ \A l \in Loc : cmd = "FLWR" => mem'[l] = IF l \in DOMAIN w THEN mem[l] \cap w[l] ELSE mem[l]
      BY <1>2, <1>6, <2>1, PutNow
    <2>3. QED
      BY <1>2, <1>3, <1>4, <1>5, <1>6, <2>2
  <1>7. CASE ver # 2
    <2>1. /\ \A l \in DOMAIN w : Slot(l) \in Places /\ w[l] \in Byte
          /\ \A l, k \in DOMAIN w : Slot(l) = Slot(k) => l = k
          /\ DOMAIN w # {}
      BY <1>1, <1>3, <1>4
    <2>2. /\ at' \in DOMAIN w /\ mem' = mem /\ pbuf' \in [Places -> Byte]
          /\ \A l \in DOMAIN w : pbuf'[Slot(l)] = w[l]
          /\ \A i \in Places : (\A l \in DOMAIN w : Slot(l) # i) => pbuf'[i] = pbuf[i]
      BY <1>2, <1>7, <2>1, PutThen
    <2>3. /\ at' = Addr(word) /\ pbuf'[word] = call.data[word + 1]
          /\ \A i \in Places : i # word => pbuf'[i] = pbuf[i]
      BY <1>3, <1>4, <2>2
    <2>4. QED
      BY <1>2, <1>4, <1>7, <2>2, <2>3
  <1>8. QED
    BY <1>6, <1>7

-----------------------------------------------------------------------------
(* Steps that leave the memory alone.                                      *)

Quiet == /\ mem' = mem /\ pbuf' = pbuf /\ at' = at /\ todo' = Tail(todo)
         /\ call' = call /\ buf' = buf /\ word' = word

\* Waiting, and a command that takes none back.
LEMMA QuietSteps ==
  ASSUME Types, Steps, Head(todo) \in {"wait", "NOOP"}
  PROVE  Quiet
  <1>1. CASE Head(todo) = "wait"
    <2>1. nvm_wait
      BY <1>1, ByName
    <2>2. QED
      BY <2>1 DEF nvm_wait, Quiet, nvm
  <1>2. CASE Head(todo) = "NOOP"
    <2>1. nvm_cmd
      BY <1>2, ByName
    <2>2. CASE ver = 2
      BY <2>1, <2>2, CommandNow DEF Quiet
    <2>3. CASE ver # 2
      BY <1>2, <2>1, <2>3, CommandThen DEF Quiet
    <2>4. QED
      BY <2>2, <2>3
  <1>3. QED
    BY <1>1, <1>2

\* The page of a round is the same throughout.
LEMMA SamePage ==
  ASSUME call' = call, want' = want, Place
  PROVE  Place' /\ \A l \in Loc : OnPage(l)' <=> OnPage(l)
  BY DEF Place, OnPage

\* The types, step by step.
LEMMA SameTypes ==
  ASSUME Types, ver' = ver, want' = want, call' = call, buf' = buf, word' \in Nat, at' \in Loc,
         mem' \in [Loc -> Byte], pbuf' \in [Places -> Byte]
  PROVE  Types'
  BY DEF Types, NvmType, CallType

-----------------------------------------------------------------------------
(* Clearing.                                                               *)

\* n pages.
Extent(n) == n * PageSize

\* How far the pages of a round reach.
LEMMA Extents ==
  /\ Extent(1) = PageSize
  /\ \A n \in Nat \ {0} : /\ Extent(n) \in Nat /\ Extent(n) >= PageSize /\ Extent(n - 1) = Extent(n) - PageSize
                          /\ n # 1 => Extent(n - 1) >= PageSize
  <1>1. PageSize \in Nat
    BY Sizes0
  <1>2. ASSUME NEW n \in Nat \ {0}
        PROVE  /\ Extent(n) \in Nat /\ Extent(n) >= PageSize /\ Extent(n - 1) = Extent(n) - PageSize
               /\ n # 1 => Extent(n - 1) >= PageSize
    <2>1. n * PageSize = PageSize * n /\ (n - 1) * PageSize = PageSize * (n - 1) /\ PageSize * 1 = PageSize
          /\ PageSize * (n - 1) = PageSize * n - PageSize /\ n * PageSize \in Nat
      BY <1>1, SMT
    <2>2. PageSize * 1 <= PageSize * n
      BY <1>1, Mono
    <2>3. n # 1 => PageSize * 1 <= PageSize * (n - 1)
      BY <1>1, Mono
    <2>4. QED
      BY <1>1, <2>1, <2>2, <2>3 DEF Extent
  <1>3. QED
    BY <1>1, <1>2 DEF Extent

\* n pages are left to clear, or the row.
ClearTo(n) ==
  /\ \A l \in DOMAIN want : l[2] < call.top + Extent(n)
  /\ \A l \in Loc : l[1] = call.area /\ call.top <= l[2] /\ l[2] < call.top + Extent(n)
                    => l \in DOMAIN want /\ Erased \in want[l]
  /\ IF call.area = "flash"
       THEN /\ call.top + Extent(n) <= Pages * PageSize
            /\ Extent(n - 1) < call.size /\ call.size <= Extent(n)
            /\ ClearFresh(ver, "flash", call.script)
       ELSE n = 1
  /\ call.area = "boot" /\ ver = 3 => want[<<"boot", 0>>] = Byte

Clears(n) ==
  /\ Place /\ Spare /\ word = 0 /\ Done(call.top) /\ ClearTo(n)
  /\ \/ ClearFresh(ver, call.area, todo)
     \/ ClearArmed(ver, call.area, todo) /\ cmd = "FLPER"
     \/ ClearPlaced(ver, call.area, todo) /\ OnPage(at)
     \/ ClearOver(call.area, todo) /\ Done(call.top + PageSize)

Ended == todo = <<>> /\ word = 0 /\ Spare /\ \A l \in DOMAIN want : mem[l] \in want[l]

\* What a step does to the memory: all up to m is done, and no more.
Moves(m) == /\ \A l \in Loc : mem'[l] # mem[l] => l \in DOMAIN want /\ l[2] < m
            /\ \A k \in DOMAIN want : k[2] < m => mem'[k] \in want[k]

\* A page at once.
Sweeps == \/ mem' = mem
          \/ Moves(call.top + PageSize) /\ \A l \in Loc : mem'[l] # mem[l] => OnPage(l)

\* A page of the rounds left is among what is to be erased.
LEMMA ClearPage ==
  ASSUME Types, Place, NEW n \in Nat \ {0}, ClearTo(n)
  PROVE  /\ \A l \in Loc : OnPage(l) => l \in DOMAIN want /\ Erased \in want[l]
         /\ \A l \in DOMAIN want : /\ l \in Loc /\ l[2] \in Nat
                                   /\ OnPage(l) <=> call.top <= l[2] /\ l[2] < call.top + PageSize
  <1>1. PICK e \in Nat : e = Extent(n) /\ e >= PageSize
    BY Extents
  <1>2. PageSize \in Nat /\ call.top \in Nat
    BY Sizes0 DEF Types, CallType
  <1>3. ASSUME NEW l \in Loc, OnPage(l)
        PROVE  l \in DOMAIN want /\ Erased \in want[l]
    <2>1. l[1] = call.area /\ call.top <= l[2] /\ l[2] < call.top + PageSize /\ l[2] \in Nat
      BY <1>3, Locs DEF OnPage
    <2>2. l[2] < call.top + e
      BY <1>1, <1>2, <2>1
    <2>3. QED
      BY <1>1, <2>1, <2>2 DEF ClearTo
  <1>4. \A l \in DOMAIN want : l \in Loc /\ l[2] \in Nat /\ l[1] = call.area
    BY Locs DEF Types, Place
  <1>5. QED
    BY <1>3, <1>4 DEF OnPage

\* The page is erased: what the commands of the three versions come to.
LEMMA PageErased ==
  ASSUME Types, Place, NEW n \in Nat \ {0}, ClearTo(n), Done(call.top), want' = want, call' = call,
         \A l \in Loc : ~OnPage(l) => mem'[l] = mem[l],
         \A l \in Loc : OnPage(l) => \/ mem'[l] = Erased
                                     \/ l = <<"boot", 0>> /\ want[l] = Byte /\ mem'[l] \in Byte
  PROVE  Sweeps /\ Done(call.top)' /\ Done(call.top + PageSize)'
  <1>1. PageSize \in Nat /\ call.top \in Nat
    BY Sizes0 DEF Types, CallType
  <1>2. /\ \A l \in Loc : OnPage(l) => l \in DOMAIN want /\ Erased \in want[l]
        /\ \A l \in DOMAIN want : /\ l \in Loc /\ l[2] \in Nat
                                  /\ OnPage(l) <=> call.top <= l[2] /\ l[2] < call.top + PageSize
    BY ClearPage
  <1>3. ASSUME NEW l \in DOMAIN want, l[2] < call.top + PageSize PROVE mem'[l] \in want[l]
    <2>1. CASE OnPage(l)
      BY <1>2, <2>1
    <2>2. CASE ~OnPage(l)
      <3>1. l[2] < call.top
        BY <1>1, <1>2, <1>3, <2>2
      <3>2. QED
        BY <1>2, <2>2, <3>1 DEF Done
    <2>3. QED
      BY <2>1, <2>2
  <1>4. \A l \in DOMAIN want : l[2] < call.top => l[2] < call.top + PageSize
    BY <1>1, <1>2
  <1>5. Done(call.top)' /\ Done(call.top + PageSize)'
    BY <1>3, <1>4 DEF Done
  <1>6. \A l \in Loc : OnPage(l) => l[2] < call.top + PageSize
    BY DEF OnPage
  <1>7. QED
    BY <1>2, <1>3, <1>5, <1>6 DEF Sweeps, Moves

\* What is left to clear does not change within a round.
LEMMA ClearSame ==
  ASSUME call' = call, want' = want, ver' = ver, NEW n, ClearTo(n)
  PROVE  ClearTo(n)'
  BY DEF ClearTo

\* A quiet step keeps all that concerns the memory.
LEMMA QuietSame ==
  ASSUME Types, Place, Quiet, want' = want, ver' = ver
  PROVE  /\ Types' /\ Place' /\ (Spare => Spare') /\ Sweeps /\ (OnPage(at) => OnPage(at)')
         /\ Done(call.top) => Done(call.top)'
         /\ Done(call.top + PageSize) => Done(call.top + PageSize)'
  <1>1. Types'
    BY SameTypes DEF Quiet, Types, NvmType
  <1>2. Place'
    BY SamePage DEF Quiet
  <1>3. QED
    BY <1>1, <1>2 DEF Quiet, Spare, Sweeps, OnPage, Done

\* Steps before the memory is touched.
LEMMA ClearFreshStep ==
  ASSUME Types, NEW n \in Nat \ {0}, Clears(n), ClearFresh(ver, call.area, todo), Steps
  PROVE  Types' /\ Sweeps /\ Clears(n)'
  <1> USE DEF Clears
  <1>1. ver' = ver /\ want' = want
    BY ByName
  <1>2. CASE Head(todo) \in {"wait", "NOOP"}
    <2>1. Quiet
      BY <1>2, QuietSteps
    <2>2. /\ Types' /\ Place' /\ Spare' /\ Sweeps /\ Done(call.top)'
      BY <1>1, <2>1, QuietSame
    <2>3. ClearTo(n)'
      BY <1>1, <2>1, ClearSame DEF Quiet
    <2>4. ClearFresh(ver, call.area, Tail(todo))
      BY <1>2, FreshSteps
    <2>5. ClearFresh(ver, call.area, todo)'
      BY <1>1, <2>1, <2>4 DEF Quiet
    <2>6. QED
      BY <2>1, <2>2, <2>3, <2>5 DEF Quiet
  <1>3. CASE Head(todo) = "FLPER"
    <2>1. ver = 2 /\ ClearArmed(ver, call.area, Tail(todo)) /\ nvm_cmd
      BY <1>3, FreshSteps, ByName
    <2>2. Quiet /\ cmd' = "FLPER"
      BY <1>3, <2>1, CommandNow DEF Quiet
    <2>3. /\ Types' /\ Place' /\ Spare' /\ Sweeps /\ Done(call.top)'
      BY <1>1, <2>2, QuietSame
    <2>4. ClearTo(n)'
      BY <1>1, <2>2, ClearSame DEF Quiet
    <2>5. ClearArmed(ver, call.area, todo)'
      BY <1>1, <2>1, <2>2 DEF Quiet
    <2>6. QED
      BY <2>2, <2>3, <2>4, <2>5 DEF Quiet
  <1>4. CASE Head(todo) = "dummy"
    <2>1. ver # 2 /\ ClearPlaced(ver, call.area, Tail(todo)) /\ nvm_stc
      BY <1>4, FreshSteps, ByName
    <2>2. /\ at' \in Loc /\ OnPage(at') /\ todo' = Tail(todo) /\ call' = call /\ buf' = buf /\ word' = word
          /\ mem' = mem /\ pbuf' \in [Places -> Byte]
          /\ \A i \in Places : i # 0 => pbuf'[i] = pbuf[i]
      BY <2>1, Dummy
    <2>3. Types'
      BY <1>1, <2>2, SameTypes DEF Types, NvmType
    <2>4. Place' /\ ClearTo(n)'
      BY <1>1, <2>2, SamePage, ClearSame
    <2>5. Spare'
      BY <1>1, <2>2 DEF Spare
    <2>6. Done(call.top)' /\ OnPage(at)' /\ Sweeps
      BY <1>1, <2>2 DEF Done, OnPage, Sweeps
    <2>7. ClearPlaced(ver, call.area, todo)'
      BY <1>1, <2>1, <2>2
    <2>8. QED
      BY <2>2, <2>3, <2>4, <2>5, <2>6, <2>7
  <1>5. QED
    BY <1>2, <1>3, <1>4, FreshSteps

\* The dummy store of version 2 erases.
LEMMA ClearArmedStep ==
  ASSUME Types, NEW n \in Nat \ {0}, Clears(n), ClearArmed(ver, call.area, todo), cmd = "FLPER", Steps
  PROVE  Types' /\ Sweeps /\ Clears(n)'
  <1> USE DEF Clears
  <1>1. ver' = ver /\ want' = want
    BY ByName
  <1>2. ver = 2 /\ ClearOver(call.area, Tail(todo)) /\ nvm_stc
    BY ArmedSteps, ByName
  <1>3. /\ at' \in Loc /\ todo' = Tail(todo) /\ call' = call /\ buf' = buf /\ word' = word
        /\ pbuf' = pbuf /\ mem' \in [Loc -> Byte]
        /\ \A l \in Loc : mem'[l] = IF OnPage(l) THEN Erased ELSE mem[l]
    BY <1>2, Dummy
  <1>4. Types'
    BY <1>1, <1>3, SameTypes DEF Types, NvmType
  <1>5. Place' /\ ClearTo(n)'
    BY <1>1, <1>3, SamePage, ClearSame
  <1>6. Sweeps /\ Done(call.top)' /\ Done(call.top + PageSize)'
    BY <1>1, <1>3, PageErased
  <1>7. Spare'
    BY <1>1, <1>3 DEF Spare
  <1>8. ClearOver(call.area, todo)'
    BY <1>2, <1>3
  <1>9. QED
    BY <1>3, <1>4, <1>5, <1>6, <1>7, <1>8

\* The command of the others erases, and writes what is in the page buffer.
LEMMA ClearPlacedStep ==
  ASSUME Types, NEW n \in Nat \ {0}, Clears(n), ClearPlaced(ver, call.area, todo), OnPage(at), Steps
  PROVE  Types' /\ Sweeps /\ Clears(n)'
  <1> USE DEF Clears
  <1>1. ver' = ver /\ want' = want
    BY ByName
  <1>2. /\ ver # 2 /\ ClearOver(call.area, Tail(todo)) /\ nvm_cmd
        /\ Head(todo) = "FLPER" \/ (Head(todo) = "FLPERW" /\ ver = 3 /\ call.area = "boot")
    BY PlacedSteps, ByName
  <1>3. /\ at' = at /\ todo' = Tail(todo) /\ call' = call /\ buf' = buf /\ word' = word
        /\ mem' \in [Loc -> Byte] /\ pbuf' \in [Places -> Byte]
        /\ pbuf' = pbuf \/ pbuf' = NoBuffer
        /\ \A l \in Loc : ~OnPage(l) => mem'[l] = mem[l]
        /\ \A l \in Loc : OnPage(l) => /\ Head(todo) = "FLPER" => mem'[l] = Erased
                                       /\ Head(todo) = "FLPERW" => mem'[l] = pbuf[l[2] - call.top]
    BY <1>2, CommandThen
  <1>4. Types'
    BY <1>1, <1>3, SameTypes DEF Types, NvmType
  <1>5. Place' /\ ClearTo(n)'
    BY <1>1, <1>3, SamePage, ClearSame
  <1>6. ASSUME NEW l \in Loc, OnPage(l)
        PROVE  \/ mem'[l] = Erased
               \/ l = <<"boot", 0>> /\ want[l] = Byte /\ mem'[l] \in Byte
    <2>1. CASE Head(todo) = "FLPER"
      BY <1>3, <1>6, <2>1
    <2>2. CASE Head(todo) = "FLPERW" /\ ver = 3 /\ call.area = "boot"
      <3>1. mem'[l] = pbuf[l[2] - call.top] /\ mem'[l] \in Byte
        BY <1>3, <1>6, <2>2
      <3>2. call.top = 0 /\ l[2] \in Nat /\ l[2] < PageSize /\ l = <<l[1], l[2]>> /\ l[1] = "boot" /\ PageSize \in Nat
        BY <1>6, <2>2, Locs, Sizes0 DEF Place, OnPage
      <3>3. CASE l[2] = 0
        BY <2>2, <3>1, <3>2, <3>3 DEF ClearTo
      <3>4. CASE l[2] # 0
        <4>1. l[2] \in Places /\ l[2] - call.top = l[2]
          BY <3>2 DEF Places
        <4>2. QED
          BY <2>2, <3>1, <3>4, <4>1 DEF Spare
      <3>5. QED
        BY <3>3, <3>4
    <2>3. QED
      BY <1>2, <2>1, <2>2
  <1>7. Sweeps /\ Done(call.top)' /\ Done(call.top + PageSize)'
    BY <1>1, <1>3, <1>6, PageErased
  <1>8. Spare'
    BY <1>1, <1>3 DEF Spare, NoBuffer, Places
  <1>9. ClearOver(call.area, todo)'
    BY <1>2, <1>3
  <1>10. QED
    BY <1>3, <1>4, <1>5, <1>7, <1>8, <1>9

\* The page is erased: on to the next, or to the end.
LEMMA NextEraseStep ==
  ASSUME Types, NEW n \in Nat \ {0}, Clears(n), call.area = "flash", Done(call.top + PageSize), NextErase,
         Tail(todo) = <<>>, want' = want
  PROVE  Types' /\ Sweeps /\ (Ended' \/ (n - 1 \in Nat \ {0} /\ Clears(n - 1)'))
  <1> USE DEF Clears
  <1>1. /\ ver' = ver /\ mem' = mem /\ pbuf' = pbuf /\ at' = at /\ buf' = buf /\ word' = word
        /\ IF call.size <= PageSize THEN todo' = Tail(todo) /\ call' = call
           ELSE todo' = call.script /\ call' = [call EXCEPT !.top = @ + PageSize, !.size = @ - PageSize]
    BY DEF NextErase, nvm
  <1>2. PICK p \in Nat, t \in Nat, e \in Nat, f \in Int, s \in Nat :
          /\ p = PageSize /\ t = call.top /\ e = Extent(n) /\ f = Extent(n - 1) /\ s = call.size
          /\ f = e - p /\ e >= p /\ (n # 1 => f >= p) /\ (n = 1 => e = p) /\ f < s /\ s <= e
    <2>1. Extent(n) \in Nat /\ Extent(n - 1) \in Int /\ PageSize \in Nat
      BY Extents, Sizes0
    <2>2. QED
      BY <2>1, Extents DEF Types, CallType, ClearTo
  <1>7. f = e - p /\ e >= p /\ f < s /\ s <= e
    BY <1>2
  <1>3. Spare' /\ Sweeps
    BY <1>1 DEF Spare, Sweeps
  <1>4. CASE call.size <= PageSize
    <2>1. n = 1
      BY <1>2, <1>4
    <2>2. ASSUME NEW l \in DOMAIN want PROVE mem[l] \in want[l]
      <3>1. l[2] < call.top + PageSize
        BY <2>1, Extents DEF ClearTo
      <3>2. QED
        BY <3>1 DEF Done
    <2>3. Types'
      BY <1>1, <1>4, SameTypes DEF Types, NvmType
    <2>4. Ended'
      BY <1>1, <1>3, <1>4, <2>2 DEF Ended
    <2>5. QED
      BY <1>3, <2>3, <2>4
  <1>5. CASE call.size > PageSize
    <2>1. n # 1 /\ n - 1 \in Nat \ {0}
      BY <1>2, <1>5
    <2>2. todo' = call.script /\ call' = [call EXCEPT !.top = @ + PageSize, !.size = @ - PageSize]
      BY <1>1, <1>2, <1>5
    <2>3. /\ call'.script = call.script /\ call'.area = "flash" /\ call'.top = t + p /\ call'.size = s - p
          /\ call'.off = call.off /\ call'.data = call.data
          /\ call' = [script |-> call'.script, area |-> call'.area, top |-> call'.top, off |-> call'.off,
                      data |-> call'.data, size |-> call'.size]
      <3>1. /\ call'.script = call.script /\ call'.area = call.area /\ call'.off = call.off
            /\ call'.top = call.top + PageSize /\ call'.size = call.size - PageSize
            /\ call'.data = call.data
        BY <2>2 DEF Types, CallType
      <3>2. call' = [script |-> call'.script, area |-> call'.area, top |-> call'.top, off |-> call'.off,
                     data |-> call'.data, size |-> call'.size]
        BY <2>2 DEF Types, CallType
      <3>3. QED
        BY <1>2, <3>1, <3>2
    <2>4. s - p \in Nat /\ t + p \in Nat /\ t + p <= Pages * PageSize /\ t + p + p <= Pages * PageSize
      <3>1. PICK m \in Nat : m = Pages * PageSize
        BY Sizes0, SMT
      <3>2. t + e <= m
        BY <1>2, <3>1 DEF ClearTo
      <3>3. p < s
        BY <1>2, <1>5
      <3>4. f >= p
        BY <1>2, <2>1
      <3>5. t + p + p <= m /\ s - p \in Nat
        BY <1>7, <3>2, <3>3, <3>4
      <3>6. QED
        BY <3>1, <3>5
    <2>5. Types'
      <3>1. CallType'
        BY <2>2, <2>3, <2>4 DEF Types, CallType
      <3>2. QED
        BY <1>1, <3>1 DEF Types, NvmType
    <2>6. Place'
      <3>1. (t + p) % p = 0
        <4>1. p \in Nat \ {0} /\ t % p = 0
          BY <1>2, Sizes0 DEF Place
        <4>2. QED
          BY <4>1, NextPage
      <3>2. QED
        BY <1>2, <2>3, <2>4, <3>1 DEF Place
    <2>7. Done(call.top)'
      BY <1>1, <1>2, <2>3 DEF Done
    <2>8. ClearTo(n - 1)'
      <3>1. t + p + f = t + e /\ t <= t + p
        BY <1>2
      <3>2. \A l \in Loc : l[2] \in Nat
        BY Locs
      <3>3. \A l \in DOMAIN want : l[2] < t + p + f
        BY <1>2, <3>1 DEF ClearTo
      <3>4. \A l \in Loc : l[1] = "flash" /\ t + p <= l[2] /\ l[2] < t + p + f
                           => l \in DOMAIN want /\ Erased \in want[l]
        <4> SUFFICES ASSUME NEW l \in Loc, l[1] = "flash", t + p <= l[2], l[2] < t + p + f
                     PROVE  l \in DOMAIN want /\ Erased \in want[l]
          OBVIOUS
        <4>1. PICK z \in Nat : z = l[2]
          BY <3>2
        <4>2. t <= z /\ z < t + e
          BY <3>1, <4>1
        <4>3. QED
          BY <1>2, <4>1, <4>2 DEF ClearTo
      <3>5. t + p + f <= Pages * PageSize
        BY <1>2, <3>1 DEF ClearTo
      <3>6. Extent(n - 1 - 1) < s - p /\ s - p <= f
        <4>1. Extent(n - 1 - 1) = Extent(n - 1) - PageSize
          BY <2>1, Extents
        <4>2. Extent(n - 1) - PageSize = f - p
          BY <1>2
        <4>3. f - p < s - p /\ s - p <= f
          BY <1>7
        <4>4. QED
          BY <4>1, <4>2, <4>3
      <3>7. ClearFresh(ver', "flash", call'.script)
        BY <1>1, <2>3 DEF ClearTo
      <3>8. QED
        BY <1>2, <2>3, <3>3, <3>4, <3>5, <3>6, <3>7 DEF ClearTo
    <2>9. ClearFresh(ver, call.area, todo)'
      BY <1>1, <2>2, <2>3 DEF ClearTo
    <2>10. QED
      BY <1>1, <1>3, <2>1, <2>5, <2>6, <2>7, <2>8, <2>9
  <1>6. QED
    BY <1>2, <1>4, <1>5

\* Behind the page, or the row, that is erased.
LEMMA ClearOverStep ==
  ASSUME Types, NEW n \in Nat \ {0}, Clears(n), ClearOver(call.area, todo), Done(call.top + PageSize), Steps
  PROVE  Types' /\ Sweeps /\ (Ended' \/ Clears(n)' \/ (n - 1 \in Nat \ {0} /\ Clears(n - 1)'))
  <1> USE DEF Clears
  <1>1. ver' = ver /\ want' = want
    BY ByName
  <1>2. CASE Head(todo) \in {"wait", "NOOP"}
    <2>1. Quiet
      BY <1>2, QuietSteps
    <2>2. Types' /\ Place' /\ Spare' /\ Sweeps /\ Done(call.top)' /\ Done(call.top + PageSize)'
      BY <1>1, <2>1, QuietSame
    <2>3. ClearTo(n)'
      BY <1>1, <2>1, ClearSame DEF Quiet
    <2>4. CASE ClearOver(call.area, Tail(todo))
      <3>1. ClearOver(call.area, todo)'
        BY <2>1, <2>4 DEF Quiet
      <3>2. QED
        BY <2>1, <2>2, <2>3, <3>1 DEF Quiet
    <2>5. CASE call.area # "flash" /\ Tail(todo) = <<>>
      <3>1. n = 1
        BY <2>5 DEF ClearTo
      <3>2. \A l \in DOMAIN want : mem[l] \in want[l]
        BY <3>1, Extents DEF ClearTo, Done
      <3>3. Ended'
        BY <1>1, <2>1, <2>2, <2>5, <3>2 DEF Quiet, Ended
      <3>4. QED
        BY <2>2, <3>3
    <2>6. QED
      BY <1>2, <2>4, <2>5, RowOverSteps, EraseOverSteps DEF ClearOver
  <1>3. CASE call.area = "flash" /\ Head(todo) = "nextErase" /\ Tail(todo) = <<>>
    <2>1. NextErase
      BY <1>3, ByName
    <2>2. QED
      BY <1>1, <1>3, <2>1, NextEraseStep
  <1>4. QED
    BY <1>2, <1>3, RowOverSteps, EraseOverSteps DEF ClearOver

Clearing == \E n \in Nat \ {0} : Clears(n)

\* A step of a call that clears: page by page, each at once.
LEMMA ClearStep ==
  ASSUME Types, Clearing, Steps
  PROVE  Types' /\ Sweeps /\ (Ended' \/ Clearing')
  <1>1. PICK n \in Nat \ {0} : Clears(n)
    BY DEF Clearing
  <1>2. CASE ClearFresh(ver, call.area, todo)
    BY <1>1, <1>2, ClearFreshStep DEF Clearing
  <1>3. CASE ClearArmed(ver, call.area, todo) /\ cmd = "FLPER"
    BY <1>1, <1>3, ClearArmedStep DEF Clearing
  <1>4. CASE ClearPlaced(ver, call.area, todo) /\ OnPage(at)
    BY <1>1, <1>4, ClearPlacedStep DEF Clearing
  <1>5. CASE ClearOver(call.area, todo) /\ Done(call.top + PageSize)
    <2>1. Types' /\ Sweeps /\ (Ended' \/ Clears(n)' \/ (n - 1 \in Nat \ {0} /\ Clears(n - 1)'))
      BY <1>1, <1>5, ClearOverStep
    <2>2. QED
      BY <2>1 DEF Clearing
  <1>6. QED
    BY <1>1, <1>2, <1>3, <1>4, <1>5 DEF Clears

-----------------------------------------------------------------------------
(* Writing pages.                                                          *)

\* The source that is left belongs at the addresses from n on.
Pending(n) ==
  /\ \A l \in DOMAIN want : l[2] < n + Len(call.data)
  /\ \A l \in Loc : l[1] = call.area /\ n <= l[2] /\ l[2] < n + Len(call.data)
                    => l \in DOMAIN want /\ mem[l] \cap call.data[(l[2] - n) + 1] \in want[l]
  /\ call.area = "flash" => n + Len(call.data) <= Pages * PageSize

\* The buffer holds what the page is to take.
Fit == \A l \in Loc : OnPage(l) =>
         IF l \in DOMAIN want THEN mem[l] \cap buf[l[2] - call.top] \in want[l]
                              ELSE buf[l[2] - call.top] = Erased

\* Version 0 copies half of it.
HalfPage == PageSize \div 2
Half == ver = 0 => call.data = <<>> /\ \A i \in Places : i >= HalfPage => buf[i] = Erased

\* The page buffer has taken n bytes of it.
Copied(n) == \A i \in Places : /\ i < n => pbuf[i] = buf[i]
                               /\ i >= n /\ i # 0 => pbuf[i] = Erased

\* The rest of the source is for the pages that follow.
Rest == call.off = 0 /\ Pending(call.top + PageSize) /\ (ver = 0 => call.data = <<>>)

ToFill ==
  /\ UpdateBegun(ver, todo) /\ word = 0 /\ Spare
  /\ call.data # <<>> /\ call.off < PageSize
  /\ Done(call.top + call.off) /\ Pending(call.top + call.off)
  /\ ver = 0 => call.off + Len(call.data) <= HalfPage

Filled == UpdateFilled(ver, todo) /\ word = 0 /\ Rest /\ Fit /\ Spare

Writing ==
  /\ UpdateWriting(ver, todo) /\ word < HalfPage /\ Rest /\ Fit /\ Half
  /\ IF ver = 2 THEN cmd = "FLWR" /\ Done(call.top + 2 * word)
                ELSE Copied(Width * word) /\ (word > 0 => OnPage(at))

Armed ==
  /\ UpdateWritten(ver, todo) /\ word = 0 /\ Rest /\ Fit
  /\ OnPage(at) /\ \A i \in Places : pbuf[i] = buf[i]

PageOver == UpdateOver(todo) /\ word = 0 /\ Rest /\ Spare /\ Done(call.top + PageSize)

Updating ==
  /\ Place /\ call.area = "flash" /\ Done(call.top) /\ UpdateFill(ver, call.script)
  /\ ToFill \/ Filled \/ Writing \/ Armed \/ PageOver

\* What a step does to the memory: in the order of the addresses.
InOrder == mem' = mem \/ \E m \in Nat : Moves(m)

\* The conditions on call and memory survive a step that leaves both alone.
LEMMA UpdateSame ==
  ASSUME call' = call, want' = want, ver' = ver, mem' = mem
  PROVE  /\ \A n \in Nat : (Done(n) => Done(n)') /\ (Pending(n) => Pending(n)')
         /\ Done(call.top) => Done(call.top)'
         /\ Done(call.top + PageSize) => Done(call.top + PageSize)'
         /\ Rest => Rest' /\ (buf' = buf /\ Fit => Fit')
         /\ buf' = buf /\ Half => Half'
  BY DEF Done, Pending, Rest, Fit, OnPage, Half

\* What is left of a sequence without its first c.
LEMMA Dropped ==
  ASSUME NEW S, NEW s \in Seq(S), NEW k \in Nat, k = Len(s), NEW c \in Nat, c <= k
  PROVE  /\ SubSeq(s, c + 1, k) \in Seq(S) /\ Len(SubSeq(s, c + 1, k)) = k - c
         /\ \A i \in 1 .. k - c : SubSeq(s, c + 1, k)[i] = s[c + i]
  <1>1. \A i \in c + 1 .. k : s[i] \in S
    OBVIOUS
  <1>2. c + 1 \in Int /\ k \in Int
    OBVIOUS
  <1>3. /\ SubSeq(s, c + 1, k) \in Seq(S)
        /\ Len(SubSeq(s, c + 1, k)) = IF c + 1 <= k THEN (k - (c + 1)) + 1 ELSE 0
        /\ \A i \in 1 .. (k - (c + 1)) + 1 : SubSeq(s, c + 1, k)[i] = s[((c + 1) + i) - 1]
    BY <1>1, <1>2, SubSeqProperties
  <1>4. (k - (c + 1)) + 1 = k - c /\ (IF c + 1 <= k THEN (k - (c + 1)) + 1 ELSE 0) = k - c
    OBVIOUS
  <1>5. \A i \in 1 .. k - c : ((c + 1) + i) - 1 = c + i
    OBVIOUS
  <1>6. QED
    BY <1>3, <1>4, <1>5

\* Filling the buffer.
LEMMA FillStep ==
  ASSUME Types, Place, call.area = "flash", Fill, want' = want, ver' = ver,
         call.data # <<>>, call.off < PageSize,
         Done(call.top + call.off), Pending(call.top + call.off)
  PROVE  /\ Types' /\ Place' /\ mem' = mem /\ pbuf' = pbuf /\ at' = at /\ cmd' = cmd /\ word' = word
         /\ todo' = Tail(todo) /\ call'.script = call.script /\ call'.area = "flash" /\ call'.top = call.top
         /\ call'.off = 0 /\ Pending(call.top + PageSize)' /\ Fit'
         /\ call.off + Len(call.data) <= HalfPage =>
              call'.data = <<>> /\ \A i \in Places : i >= HalfPage => buf'[i] = Erased
  <1> DEFINE n == Least(Len(call.data), PageSize - call.off)
  <1>1. /\ todo' = Tail(todo) /\ mem' = mem /\ pbuf' = pbuf /\ at' = at /\ cmd' = cmd /\ word' = word
        /\ buf' = [i \in 0 .. PageSize - 1 |->
                     IF i \in call.off .. call.off + n - 1 THEN call.data[i - call.off + 1] ELSE FillOnes[i]]
        /\ call' = [call EXCEPT !.data = SubSeq(@, n + 1, Len(@)), !.off = 0]
    BY DEF Fill, nvm
  <1>2. PICK p \in Nat, t \in Nat, o \in Nat, k \in Nat :
          /\ p = PageSize /\ t = call.top /\ o = call.off /\ k = Len(call.data)
          /\ o < p /\ k >= 1
    <2>1. PageSize \in Nat /\ call.top \in Nat /\ call.off \in Nat /\ call.data \in Seq(Byte)
      BY Sizes0 DEF Types, CallType
    <2>2. Len(call.data) \in Nat /\ Len(call.data) >= 1
      BY <2>1
    <2>3. QED
      BY <2>1, <2>2
  <1>3. PICK c \in Nat : /\ c = n /\ c >= 1 /\ c <= k /\ o + c <= p
                         /\ c = k \/ o + c = p
    <2>1. n = IF k <= p - o THEN k ELSE p - o
      BY <1>2 DEF Least
    <2>2. CASE k <= p - o
      BY <1>2, <2>1, <2>2
    <2>3. CASE ~(k <= p - o)
      <3>1. p - o \in Nat /\ p - o >= 1 /\ p - o <= k /\ o + (p - o) <= p /\ o + (p - o) = p
        BY <1>2, <2>3
      <3>2. QED
        BY <2>1, <2>3, <3>1
    <2>4. QED
      BY <2>2, <2>3
  <1> HIDE DEF n
  <1>4. /\ call'.script = call.script /\ call'.area = call.area /\ call'.top = call.top
        /\ call'.off = 0 /\ call'.size = call.size
        /\ call'.data = SubSeq(call.data, n + 1, Len(call.data))
        /\ call' = [script |-> call'.script, area |-> call'.area, top |-> call'.top, off |-> call'.off,
                    data |-> call'.data, size |-> call'.size]
    <2>1. call = [script |-> call.script, area |-> call.area, top |-> call.top, off |-> call.off,
                  data |-> call.data, size |-> call.size]
      BY DEF Types, CallType
    <2>2. QED
      BY <1>1, <2>1
  <1>5. /\ call'.data \in Seq(Byte) /\ Len(call'.data) = k - c
        /\ \A i \in 1 .. k - c : call'.data[i] = call.data[c + i]
    <2>1. call.data \in Seq(Byte) /\ Len(call.data) = k
      BY <1>2 DEF Types, CallType
    <2>2. call'.data = SubSeq(call.data, c + 1, k)
      BY <1>2, <1>3, <1>4
    <2>3. QED
      BY <1>3, <2>1, <2>2, Dropped
  <1>6. \A i \in Places : /\ i \in o .. o + c - 1 => buf'[i] = call.data[(i - o) + 1] /\ buf'[i] \in Byte
                          /\ i \notin o .. o + c - 1 => buf'[i] = Erased
    <2> SUFFICES ASSUME NEW i \in Places
                 PROVE  /\ i \in o .. o + c - 1 => buf'[i] = call.data[(i - o) + 1] /\ buf'[i] \in Byte
                        /\ i \notin o .. o + c - 1 => buf'[i] = Erased
      OBVIOUS
    <2>1. buf'[i] = IF i \in o .. o + c - 1 THEN call.data[(i - o) + 1] ELSE FillOnes[i]
      BY <1>1, <1>2, <1>3 DEF Places
    <2>2. FillOnes[i] = Erased
      BY DEF FillOnes, NoBuffer, Places
    <2>3. ASSUME i \in o .. o + c - 1 PROVE call.data[(i - o) + 1] \in Byte
      <3>1. (i - o) + 1 \in 1 .. k
        BY <1>3, <2>3
      <3>2. QED
        BY <1>2, <3>1 DEF Types, CallType
    <2>4. QED
      BY <2>1, <2>2, <2>3
  <1>7. buf' \in [Places -> Byte]
    <2>1. DOMAIN buf' = Places /\ buf' = [i \in Places |-> buf'[i]]
      BY <1>1 DEF Places
    <2>2. \A i \in Places : buf'[i] \in Byte
      BY <1>6, Bytes DEF Erased, Byte
    <2>3. QED
      BY <2>1, <2>2
  <1>8. Types'
    <2>1. call.area \in Areas /\ call.top \in Nat /\ call.size \in Nat /\ 0 \in Nat
      BY DEF Types, CallType
    <2>2. /\ call'.area \in Areas /\ call'.top \in Nat /\ call'.off \in Nat /\ call'.size \in Nat
          /\ call'.data \in Seq(Byte)
      BY <1>4, <1>5, <2>1
    <2>3. call' = [script |-> call'.script, area |-> call'.area, top |-> call'.top, off |-> call'.off,
                   data |-> call'.data, size |-> call'.size]
      BY <1>4
    <2>4. CallType'
      BY <2>2, <2>3 DEF CallType
    <2>5. QED
      BY <1>1, <1>7, <2>4 DEF Types, NvmType
  <1>9. Place'
    BY <1>4 DEF Place
  <1>10. \A l \in Loc : l[2] \in Nat
    BY Locs
  <1>11. Pending(call.top + PageSize)'
    <2>1. \A l \in DOMAIN want : l[2] < t + p + (k - c)
      <3> SUFFICES ASSUME NEW l \in DOMAIN want PROVE l[2] < t + p + (k - c)
        OBVIOUS
      <3>1. PICK z \in Nat : z = l[2]
        BY <1>10 DEF Types
      <3>2. z < t + o + k
        BY <1>2, <3>1 DEF Pending
      <3>3. z < t + p + (k - c)
        BY <1>3, <3>2
      <3>4. QED
        BY <3>1, <3>3
    <2>2. ASSUME NEW l \in Loc, l[1] = "flash", t + p <= l[2], l[2] < t + p + (k - c)
          PROVE  l \in DOMAIN want /\ mem[l] \cap call'.data[(l[2] - (t + p)) + 1] \in want[l]
      <3>1. PICK z \in Nat : z = l[2]
        BY <1>10
      <3>2. o + c = p /\ t + o <= z /\ z < t + o + k /\ (z - (t + p)) + 1 \in 1 .. k - c
            /\ c + ((z - (t + p)) + 1) = (z - (t + o)) + 1
        BY <1>3, <2>2, <3>1
      <3>3. call'.data[(z - (t + p)) + 1] = call.data[(z - (t + o)) + 1]
        BY <1>5, <3>2
      <3>4. l \in DOMAIN want /\ mem[l] \cap call.data[(z - (t + o)) + 1] \in want[l]
        BY <1>2, <2>2, <3>1, <3>2 DEF Pending
      <3>5. QED
        BY <3>1, <3>3, <3>4
    <2>3. t + p + (k - c) <= Pages * PageSize
      <3>1. PICK m \in Nat : m = Pages * PageSize
        BY Sizes0, SMT
      <3>2. t + o + k <= m /\ t + p <= m
        BY <1>2, <3>1 DEF Pending, Place
      <3>3. t + p + (k - c) <= m
        BY <1>3, <3>2
      <3>4. QED
        BY <3>1, <3>3
    <2>4. /\ call'.area = "flash" /\ mem' = mem /\ want' = want
          /\ call'.top + PageSize = t + p /\ Len(call'.data) = k - c
      BY <1>1, <1>2, <1>4, <1>5
    <2>5. \A l \in Loc : l[1] = "flash" /\ t + p <= l[2] /\ l[2] < t + p + (k - c)
                        => l \in DOMAIN want /\ mem[l] \cap call'.data[(l[2] - (t + p)) + 1] \in want[l]
      BY <2>2
    <2>6. QED
      BY <2>1, <2>3, <2>4, <2>5 DEF Pending
  <1>12. Fit'
    <2>1. ASSUME NEW l \in Loc, OnPage(l)
          PROVE  IF l \in DOMAIN want THEN mem[l] \cap buf'[l[2] - call.top] \in want[l]
                                      ELSE buf'[l[2] - call.top] = Erased
      <3>1. PICK z \in Nat, i \in Nat : z = l[2] /\ z = t + i /\ i < p /\ i \in Places
        <4>1. PICK z \in Nat : z = l[2]
          BY <1>10
        <4>2. t <= z /\ z < t + p
          BY <1>2, <2>1, <4>1 DEF OnPage
        <4>3. PICK i \in Nat : z = t + i /\ i < p
          BY <4>2
        <4>4. i \in Places
          BY <1>2, <4>3 DEF Places
        <4>5. QED
          BY <4>1, <4>3, <4>4
      <3>2. l[2] - call.top = i
        BY <1>2, <3>1
      <3>3. CASE i \in o .. o + c - 1
        <4>1. t + o <= z /\ z < t + o + k /\ (z - (t + o)) + 1 = (i - o) + 1
          BY <1>3, <3>1, <3>3
        <4>2. l \in DOMAIN want /\ mem[l] \cap call.data[(i - o) + 1] \in want[l]
          BY <1>2, <2>1, <3>1, <4>1 DEF Pending, OnPage
        <4>3. QED
          BY <1>6, <3>1, <3>2, <3>3, <4>2
      <3>4. CASE i \notin o .. o + c - 1
        <4>1. buf'[i] = Erased
          BY <1>6, <3>1, <3>4
        <4>2. ASSUME l \in DOMAIN want PROVE mem[l] \cap Erased \in want[l]
          <5>1. z < t + o + k
            BY <1>2, <3>1, <4>2 DEF Pending
          <5>2. z < t + o
            BY <1>3, <3>1, <3>4, <5>1
          <5>3. mem[l] \in want[l]
            BY <1>2, <3>1, <4>2, <5>2 DEF Done
          <5>4. mem[l] \cap Erased = mem[l]
            BY Bytes DEF Types, NvmType
          <5>5. QED
            BY <5>3, <5>4
        <4>3. QED
          BY <3>2, <4>1, <4>2
      <3>5. QED
        BY <3>3, <3>4
    <2>2. /\ mem' = mem /\ want' = want /\ call'.top = call.top
          /\ \A l \in Loc : OnPage(l)' <=> OnPage(l)
      BY <1>1, <1>4 DEF OnPage
    <2>3. QED
      BY <2>1, <2>2 DEF Fit
  <1>13. ASSUME call.off + Len(call.data) <= HalfPage
         PROVE  call'.data = <<>> /\ \A i \in Places : i >= HalfPage => buf'[i] = Erased
    <2>1. PICK h \in Nat : h = HalfPage /\ h <= p
      BY <1>2, Sizes0 DEF HalfPage
    <2>2. o + k <= h
      BY <1>2, <1>13, <2>1
    <2>3. c = k
      BY <1>2, <1>3, <2>1, <2>2
    <2>4. call'.data = <<>>
      BY <1>5, <2>3
    <2>5. \A i \in Places : i >= h => i \notin o .. o + c - 1
      BY <2>2, <2>3 DEF Places
    <2>6. QED
      BY <1>6, <2>1, <2>4, <2>5
  <1>14. QED
    BY <1>1, <1>4, <1>8, <1>9, <1>11, <1>12, <1>13

\* A call that writes pages, before the buffer is filled.
LEMMA ToFillStep ==
  ASSUME Types, Updating, ToFill, Steps
  PROVE  Types' /\ InOrder /\ Updating'
  <1> USE DEF Updating
  <1>1. ver' = ver /\ want' = want
    BY ByName
  <1>2. CASE UpdateFill(ver, todo)
    <2>1. Fill
      BY <1>2, FillSteps, ByName
    <2>2. /\ Types' /\ Place' /\ mem' = mem /\ pbuf' = pbuf /\ at' = at /\ cmd' = cmd /\ word' = word
          /\ todo' = Tail(todo) /\ call'.script = call.script /\ call'.area = "flash" /\ call'.top = call.top
          /\ call'.off = 0 /\ Pending(call.top + PageSize)' /\ Fit'
          /\ call.off + Len(call.data) <= HalfPage =>
               call'.data = <<>> /\ \A i \in Places : i >= HalfPage => buf'[i] = Erased
      BY <1>1, <2>1, FillStep DEF ToFill
    <2>3. Rest' /\ Half'
      BY <1>1, <2>2 DEF Rest, Half, ToFill
    <2>4. Done(call.top)'
      BY <1>1, <2>2 DEF Done
    <2>5. UpdateFill(ver, call.script)' /\ Spare'
      BY <1>1, <2>2 DEF ToFill, Spare
    <2>6. CASE UpdateFilled(ver, Tail(todo))
      <3>1. Filled'
        BY <1>1, <2>2, <2>3, <2>5, <2>6 DEF Filled, ToFill
      <3>2. QED
        BY <2>2, <2>4, <2>5, <3>1 DEF InOrder
    <2>7. CASE ver = 0 /\ UpdateWriting(ver, Tail(todo))
      <3>1. word' = 0 /\ 0 < HalfPage
        BY <2>2, Sizes0 DEF ToFill, HalfPage
      <3>2. Copied(Width * word)'
        <4>1. (Width * word)' = 0
          BY <1>1, <2>7, <3>1 DEF Width
        <4>2. \A i \in Places : i >= 0 /\ ~(i < 0)
          BY DEF Places
        <4>3. QED
          BY <2>5, <2>7, <1>1, <4>1, <4>2 DEF Copied, Spare
      <3>3. ~(word' > 0)
        BY <3>1
      <3>4. Writing'
        BY <1>1, <2>2, <2>3, <2>7, <3>1, <3>2, <3>3 DEF Writing
      <3>5. QED
        BY <2>2, <2>4, <2>5, <3>4 DEF InOrder
    <2>8. QED
      BY <1>2, <2>6, <2>7, FillSteps
  <1>3. CASE ~UpdateFill(ver, todo)
    <2>1. Head(todo) = "wait" /\ UpdateFill(ver, Tail(todo))
      BY <1>3, BegunSteps DEF ToFill
    <2>2. Quiet
      BY <2>1, QuietSteps
    <2>3. Types' /\ Place' /\ (Spare => Spare')
      BY <1>1, <2>2, QuietSame
    <2>4. call.top + call.off \in Nat
      BY DEF Types, CallType
    <2>5. Done(call.top)' /\ Done(call.top + call.off)' /\ Pending(call.top + call.off)'
      BY <1>1, <2>2, <2>4, UpdateSame DEF Quiet, ToFill
    <2>6. UpdateBegun(ver, todo)'
      BY <1>1, <2>1, <2>2 DEF Quiet, UpdateBegun
    <2>7. ToFill'
      BY <1>1, <2>2, <2>3, <2>5, <2>6 DEF ToFill, Quiet
    <2>8. QED
      BY <1>1, <2>2, <2>3, <2>5, <2>7 DEF Quiet, InOrder
  <1>4. QED
    BY <1>2, <1>3

\* The command before the stores.
LEMMA FilledStep ==
  ASSUME Types, Updating, Filled, Steps
  PROVE  Types' /\ InOrder /\ Updating'
  <1> USE DEF Updating
  <1>1. ver' = ver /\ want' = want
    BY ByName
  <1>2. /\ UpdateWriting(ver, Tail(todo)) /\ nvm_cmd
        /\ (ver = 2 /\ Head(todo) = "FLWR") \/ (ver = 3 /\ Head(todo) = "FLPBCLR")
    BY FilledSteps, ByName DEF Filled
  <1>3. /\ mem' = mem /\ at' = at /\ todo' = Tail(todo) /\ call' = call /\ buf' = buf /\ word' = word
        /\ pbuf' \in [Places -> Byte]
        /\ ver = 2 => pbuf' = pbuf /\ cmd' = "FLWR"
        /\ ver = 3 => pbuf' = NoBuffer
    BY <1>2, CommandNow, CommandThen DEF Types, NvmType
  <1>4. Types'
    BY <1>1, <1>3, SameTypes DEF Types, NvmType
  <1>5. Place'
    BY <1>1, <1>3, SamePage
  <1>6. Rest' /\ Fit' /\ Done(call.top)'
    BY <1>1, <1>3, UpdateSame DEF Filled
  <1>7. word' = 0 /\ 0 < HalfPage
    BY <1>3, Sizes0 DEF Filled, HalfPage
  <1>8. Half'
    BY <1>1, <1>2 DEF Half
  <1>9. ver = 2 => Done(call.top + 2 * word)'
    <2>1. (call.top + 2 * word)' = call.top
      BY <1>3, <1>7 DEF Types, CallType
    <2>2. QED
      BY <1>1, <1>3, <2>1 DEF Done
  <1>10. ver # 2 => Copied(Width * word)'
    <2>1. SUFFICES ASSUME ver = 3 PROVE Copied(Width * word)'
      BY <1>2
    <2>2. (Width * word)' = 0
      BY <1>1, <1>7, <2>1 DEF Width
    <2>3. \A i \in Places : ~(i < 0) /\ pbuf'[i] = Erased
      BY <1>3, <2>1 DEF Places, NoBuffer
    <2>4. QED
      BY <2>2, <2>3 DEF Copied
  <1>11. Writing'
    BY <1>1, <1>2, <1>3, <1>6, <1>7, <1>8, <1>9, <1>10 DEF Writing
  <1>12. QED
    BY <1>1, <1>3, <1>4, <1>5, <1>6, <1>11 DEF InOrder

\* The command that programs the page.
LEMMA ArmedStep ==
  ASSUME Types, Updating, Armed, Steps
  PROVE  Types' /\ InOrder /\ Updating'
  <1> USE DEF Updating
  <1>1. ver' = ver /\ want' = want
    BY ByName
  <1>2. ver # 2 /\ Head(todo) = "FLPW" /\ UpdateOver(Tail(todo)) /\ nvm_cmd
    BY WrittenSteps, ByName DEF Armed, UpdateWritten
  <1>3. /\ at' = at /\ todo' = Tail(todo) /\ call' = call /\ buf' = buf /\ word' = word
        /\ pbuf' = NoBuffer /\ mem' \in [Loc -> Byte] /\ pbuf' \in [Places -> Byte]
        /\ \A l \in Loc : ~OnPage(l) => mem'[l] = mem[l]
        /\ \A l \in Loc : OnPage(l) => mem'[l] = mem[l] \cap pbuf[l[2] - call.top]
    BY <1>2, CommandThen DEF Armed
  <1>4. Types'
    BY <1>1, <1>3, SameTypes DEF Types, NvmType
  <1>5. Place'
    <2>1. call' = call /\ want' = want
      BY <1>1, <1>3
    <2>2. QED
      BY <2>1, SamePage
  <1>6. PageSize \in Nat /\ call.top \in Nat /\ call.top + PageSize \in Nat /\ \A l \in Loc : l[2] \in Nat
    <2>1. PageSize \in Nat /\ call.top \in Nat
      BY Sizes0 DEF Types, CallType
    <2>2. \A l \in Loc : l[2] \in Nat
      BY Locs
    <2>3. QED
      BY <2>1, <2>2
  <1>7. ASSUME NEW l \in Loc, OnPage(l)
        PROVE  /\ l[2] - call.top \in Places
               /\ IF l \in DOMAIN want THEN mem'[l] \in want[l] ELSE mem'[l] = mem[l]
    <2>1. l[2] - call.top \in Places
      BY <1>6, <1>7 DEF OnPage, Places
    <2>2. mem'[l] = mem[l] \cap buf[l[2] - call.top]
      BY <1>3, <1>7, <2>1 DEF Armed
    <2>3. mem[l] \cap Erased = mem[l]
      BY Bytes DEF Types, NvmType
    <2>4. QED
      BY <1>7, <2>1, <2>2, <2>3 DEF Armed, Fit
  <1>8. \A l \in DOMAIN want : /\ l \in Loc
                               /\ OnPage(l) <=> call.top <= l[2] /\ l[2] < call.top + PageSize
    BY DEF Types, Place, OnPage
  <1>9. ASSUME NEW l \in DOMAIN want, l[2] < call.top + PageSize PROVE mem'[l] \in want[l]
    <2>1. CASE OnPage(l)
      BY <1>7, <1>8, <2>1
    <2>2. CASE ~OnPage(l)
      <3>1. l[2] < call.top
        BY <1>6, <1>8, <1>9, <2>2
      <3>2. QED
        BY <1>3, <1>8, <2>2, <3>1 DEF Done
    <2>3. QED
      BY <2>1, <2>2
  <1>10. Done(call.top)' /\ Done(call.top + PageSize)'
    <2>1. \A l \in DOMAIN want : l[2] < call.top => l[2] < call.top + PageSize
      BY <1>6, <1>8
    <2>2. QED
      BY <1>1, <1>3, <1>9, <2>1 DEF Done
  <1>11. InOrder
    <2>1. \A l \in Loc : mem'[l] # mem[l] => l \in DOMAIN want /\ l[2] < call.top + PageSize
      BY <1>3, <1>7 DEF OnPage
    <2>2. QED
      BY <1>6, <1>9, <2>1 DEF InOrder, Moves
  <1>12. Rest'
    <2>1. call.off = 0 /\ (ver = 0 => call.data = <<>>)
      BY DEF Armed, Rest
    <2>2. Pending(call.top + PageSize)'
      <3>1. ASSUME NEW l \in Loc, l[1] = call.area, call.top + PageSize <= l[2],
                   l[2] < call.top + PageSize + Len(call.data)
            PROVE  l \in DOMAIN want /\ mem'[l] \cap call.data[(l[2] - (call.top + PageSize)) + 1] \in want[l]
        <4>1. ~OnPage(l)
          BY <1>6, <3>1 DEF OnPage
        <4>2. QED
          BY <1>3, <3>1, <4>1 DEF Armed, Rest, Pending
      <3>2. QED
        BY <1>1, <1>3, <3>1 DEF Armed, Rest, Pending
    <2>3. QED
      BY <1>1, <1>3, <2>1, <2>2 DEF Rest
  <1>13. Spare'
    BY <1>3 DEF Spare, NoBuffer, Places
  <1>14. PageOver'
    BY <1>1, <1>2, <1>3, <1>10, <1>12, <1>13 DEF PageOver, Armed
  <1>15. QED
    BY <1>1, <1>3, <1>4, <1>5, <1>10, <1>11, <1>14

\* The stores of version 2: each is final.
LEMMA WritingNow ==
  ASSUME Types, Updating, Writing, Steps, ver = 2
  PROVE  Types' /\ InOrder /\ Updating'
  <1> USE DEF Updating
  <1>1. ver' = ver /\ want' = want /\ nvm_write /\ UpdateOver(Tail(todo))
    BY WritingSteps, ByName DEF Writing
  <1>2. PICK w \in Nat, h \in Nat, p \in Nat, t \in Nat :
          /\ w = word /\ h = HalfPage /\ p = PageSize /\ t = call.top
          /\ w < h /\ 2 * h = p
    BY Sizes0 DEF Writing, Types, CallType, HalfPage
  <1>3. /\ at' \in Loc /\ call' = call /\ buf' = buf /\ pbuf' = pbuf /\ cmd' = cmd /\ mem' \in [Loc -> Byte]
        /\ IF w + 1 = h THEN todo' = Tail(todo) /\ word' = 0 ELSE todo' = todo /\ word' = w + 1
        /\ \A l \in Loc : mem'[l] = IF OnPage(l) /\ l[2] - call.top \in 2 * word .. 2 * word + 1
                                    THEN mem[l] \cap buf[l[2] - call.top] ELSE mem[l]
    BY <1>1, <1>2, Written DEF Writing, Rounds, HalfPage
  <1>4. Types'
    <2>1. word' \in Nat
      BY <1>3
    <2>2. QED
      BY <1>1, <1>3, <2>1, SameTypes DEF Types, NvmType
  <1>5. Place'
    BY <1>1, <1>3, SamePage
  <1>6. ASSUME NEW l \in Loc
        PROVE  \/ mem'[l] = mem[l] /\ ~(OnPage(l) /\ t + 2 * w <= l[2] /\ l[2] < t + 2 * w + 2)
               \/ /\ OnPage(l) /\ t + 2 * w <= l[2] /\ l[2] < t + 2 * w + 2
                  /\ mem'[l] = mem[l] \cap buf[l[2] - call.top]
                  /\ mem'[l] \cap buf[l[2] - call.top] = mem'[l]
    <2>1. PICK z \in Nat : z = l[2]
      BY Locs
    <2>2. l[2] - call.top \in 2 * word .. 2 * word + 1 <=> t + 2 * w <= z /\ z < t + 2 * w + 2
      <3>1. l[2] - call.top = z - t /\ 2 * word = 2 * w
        BY <1>2, <2>1
      <3>2. z - t \in 2 * w .. 2 * w + 1 <=> t + 2 * w <= z /\ z < t + 2 * w + 2
        OBVIOUS
      <3>3. QED
        BY <3>1, <3>2
    <2>3. CASE OnPage(l) /\ t + 2 * w <= z /\ z < t + 2 * w + 2
      <3>1. z - t \in Places /\ l[2] - call.top = z - t
        <4>1. z - t \in 0 .. p - 1
          BY <1>2, <2>1, <2>3
        <4>2. QED
          BY <1>2, <2>1, <4>1 DEF Places
      <3>2. buf[z - t] \in Byte /\ mem[l] \in Byte
        BY <3>1 DEF Types, NvmType
      <3>3. (mem[l] \cap buf[z - t]) \cap buf[z - t] = mem[l] \cap buf[z - t]
        BY <3>2, Bytes
      <3>4. mem'[l] = mem[l] \cap buf[z - t]
        BY <1>3, <2>2, <2>3, <3>1
      <3>5. QED
        BY <2>1, <2>3, <3>1, <3>3, <3>4
    <2>4. CASE ~(OnPage(l) /\ t + 2 * w <= z /\ z < t + 2 * w + 2)
      BY <1>3, <2>1, <2>2, <2>4
    <2>5. QED
      BY <2>3, <2>4
  <1>7. \A l \in DOMAIN want : l \in Loc /\ l[2] \in Nat /\ l[1] = call.area
    BY Locs DEF Types, Place
  <1>8. ASSUME NEW l \in DOMAIN want, l[2] < t + 2 * w + 2 PROVE mem'[l] \in want[l]
    <2>1. PICK z \in Nat : z = l[2]
      BY <1>7
    <2>2. CASE z < t + 2 * w
      <3>1. mem'[l] = mem[l]
        BY <1>6, <1>7, <2>1, <2>2
      <3>2. mem[l] \in want[l]
        BY <1>2, <2>1, <2>2 DEF Writing, Done
      <3>3. QED
        BY <3>1, <3>2
    <2>3. CASE ~(z < t + 2 * w)
      <3>1. t <= z /\ z < t + p /\ t + 2 * w <= z /\ z < t + 2 * w + 2
        BY <1>2, <1>8, <2>1, <2>3
      <3>2. OnPage(l)
        BY <1>2, <1>7, <2>1, <3>1 DEF OnPage
      <3>3. mem'[l] = mem[l] \cap buf[l[2] - call.top]
        BY <1>6, <1>7, <2>1, <3>1, <3>2
      <3>4. QED
        BY <1>7, <3>2, <3>3 DEF Writing, Fit
    <2>4. QED
      BY <2>2, <2>3
  <1>9. InOrder
    <2>1. ASSUME NEW l \in Loc, mem'[l] # mem[l] PROVE l \in DOMAIN want /\ l[2] < t + 2 * w + 2
      <3>1. OnPage(l) /\ l[2] < t + 2 * w + 2 /\ mem'[l] = mem[l] \cap buf[l[2] - call.top]
        BY <1>6, <2>1
      <3>2. mem[l] \cap Erased = mem[l]
        BY Bytes DEF Types, NvmType
      <3>3. l \in DOMAIN want
        BY <2>1, <3>1, <3>2 DEF Writing, Fit
      <3>4. QED
        BY <3>1, <3>3
    <2>2. t + 2 * w + 2 \in Nat
      OBVIOUS
    <2>3. QED
      BY <1>8, <2>1, <2>2 DEF InOrder, Moves
  <1>10. Rest'
    <2>1. ASSUME NEW l \in Loc, call.top + PageSize <= l[2] PROVE mem'[l] = mem[l]
      <3>1. PICK z \in Nat : z = l[2]
        BY Locs
      <3>2. ~(z < t + p)
        BY <1>2, <2>1, <3>1
      <3>3. ~OnPage(l)
        BY <1>2, <3>1, <3>2 DEF OnPage
      <3>4. QED
        BY <1>6, <3>3
    <2>2. QED
      BY <1>1, <1>3, <2>1 DEF Writing, Rest, Pending
  <1>11. Fit'
    <2>1. \A l \in Loc : mem'[l] = mem[l] \/ (OnPage(l) /\ mem'[l] \cap buf[l[2] - call.top] = mem[l] \cap buf[l[2] - call.top])
      BY <1>6
    <2>2. QED
      BY <1>1, <1>3, <2>1 DEF Writing, Fit, OnPage
  <1>12. Done(call.top)'
    <2>1. \A l \in DOMAIN want : l[2] < t => l[2] < t + 2 * w + 2
      BY <1>7
    <2>2. QED
      BY <1>1, <1>2, <1>3, <1>8, <2>1 DEF Done
  <1>13. CASE w + 1 = h
    <2>1. t + p = t + 2 * w + 2
      BY <1>2, <1>13
    <2>2. Done(call.top + PageSize)'
      BY <1>1, <1>2, <1>3, <1>8, <2>1 DEF Done
    <2>3. PageOver'
      BY <1>1, <1>3, <1>10, <1>13, <2>2 DEF PageOver, Spare
    <2>4. QED
      BY <1>1, <1>3, <1>4, <1>5, <1>9, <1>12, <2>3
  <1>14. CASE w + 1 # h
    <2>1. word' = w + 1 /\ todo' = todo /\ w + 1 < h /\ t + 2 * (w + 1) = t + 2 * w + 2
      BY <1>2, <1>3, <1>14
    <2>2. Done(call.top + 2 * word)'
      <3>1. (call.top + 2 * word)' = t + 2 * w + 2
        BY <1>2, <1>3, <2>1
      <3>2. QED
        BY <1>1, <1>8, <3>1 DEF Done
    <2>3. HalfPage' = HalfPage /\ word' < HalfPage
      BY <1>2, <2>1
    <2>4. Half'
      BY <1>1 DEF Half
    <2>5. Writing'
      BY <1>1, <1>3, <1>10, <1>11, <2>1, <2>2, <2>3, <2>4 DEF Writing
    <2>6. QED
      BY <1>1, <1>3, <1>4, <1>5, <1>9, <1>12, <2>5
  <1>15. QED
    BY <1>13, <1>14

\* The stores of the others: into the page buffer.
LEMMA WritingThen ==
  ASSUME Types, Updating, Writing, Steps, ver # 2
  PROVE  Types' /\ InOrder /\ Updating'
  <1> USE DEF Updating
  <1>1. ver' = ver /\ want' = want /\ nvm_write /\ UpdateWritten(ver, Tail(todo))
    BY WritingSteps, ByName DEF Writing
  <1>2. PICK w \in Nat, h \in Nat, p \in Nat, d \in {1, 2} :
          /\ w = word /\ h = HalfPage /\ p = PageSize /\ d = Width
          /\ w < h /\ 2 * h = p /\ d = IF ver = 0 THEN 1 ELSE 2
    BY Sizes0 DEF Writing, Types, HalfPage, Width
  <1>3. /\ at' \in Loc /\ OnPage(at') /\ call' = call /\ buf' = buf /\ mem' = mem /\ pbuf' \in [Places -> Byte]
        /\ IF w + 1 = h THEN todo' = Tail(todo) /\ word' = 0 ELSE todo' = todo /\ word' = w + 1
        /\ \A i \in Places : pbuf'[i] = IF i \in Width * word .. Width * word + Width - 1
                                        THEN buf[i] ELSE pbuf[i]
    BY <1>1, <1>2, Written DEF Writing, Rounds, HalfPage
  <1>4. PICK x \in Nat : x = Width * word /\ x = d * w
    <2>1. Width * word = d * w /\ d * w \in Nat
      BY <1>2, SMT
    <2>2. QED
      BY <2>1
  <1>5. Types'
    <2>1. word' \in Nat
      BY <1>3
    <2>2. QED
      BY <1>1, <1>3, <2>1, SameTypes DEF Types, NvmType
  <1>6. Place' /\ OnPage(at)'
    BY <1>1, <1>3, SamePage DEF OnPage
  <1>7. Rest' /\ Fit' /\ Half' /\ Done(call.top)'
    BY <1>1, <1>3, UpdateSame DEF Writing
  <1>8. \A i \in Places : i \in Nat /\ i < p
    BY <1>2 DEF Places
  <1>9. ASSUME NEW i \in Places
        PROVE  (i < x + d => pbuf'[i] = buf[i]) /\ (i >= x + d /\ i # 0 => pbuf'[i] = Erased)
    <2>1. pbuf'[i] = IF i \in x .. x + d - 1 THEN buf[i] ELSE pbuf[i]
      BY <1>2, <1>3, <1>4
    <2>2. (i < x => pbuf[i] = buf[i]) /\ (i >= x /\ i # 0 => pbuf[i] = Erased)
      BY <1>4 DEF Writing, Copied
    <2>3. i \in x .. x + d - 1 <=> i >= x /\ i < x + d
      BY <1>8
    <2>4. i >= x + d => i >= x /\ ~(i < x + d)
      BY <1>8
    <2>5. i < x \/ i >= x
      BY <1>8
    <2>6. QED
      BY <2>1, <2>2, <2>3, <2>4, <2>5
  <1>10. CASE w + 1 = h
    <2>1. ASSUME NEW i \in Places PROVE pbuf'[i] = buf[i]
      <3>1. CASE i < x + d
        BY <1>9, <3>1
      <3>2. CASE ~(i < x + d)
        <4>1. ver = 0 /\ i >= h /\ i # 0 /\ i >= x + d
          <5>1. d = 1 => x + d = h
            BY <1>4, <1>10
          <5>2. d = 2 => x + d = p
            <6>1. d = 2 => x = 2 * w
              BY <1>4
            <6>2. 2 * h = p
              BY <1>2
            <6>3. QED
              BY <1>10, <6>1, <6>2
          <5>3. d = 1 /\ i >= h /\ i # 0 /\ i >= x + d
            BY <1>2, <1>8, <3>2, <5>1, <5>2
          <5>4. QED
            BY <1>2, <5>3
        <4>2. buf[i] = Erased
          BY <1>2, <4>1 DEF Writing, Half
        <4>3. QED
          BY <1>9, <4>1, <4>2
      <3>3. QED
        BY <3>1, <3>2
    <2>2. Armed'
      BY <1>1, <1>3, <1>6, <1>7, <1>10, <2>1 DEF Armed
    <2>3. QED
      BY <1>1, <1>3, <1>5, <1>6, <1>7, <2>2 DEF InOrder
  <1>11. CASE w + 1 # h
    <2>1. word' = w + 1 /\ todo' = todo /\ w + 1 < h
      BY <1>2, <1>3, <1>11
    <2>2. (Width * word)' = x + d
      <3>1. Width' = d
        BY <1>1, <1>2 DEF Width
      <3>2. d * (w + 1) = d * w + d
        BY SMT
      <3>3. QED
        BY <1>4, <2>1, <3>1, <3>2
    <2>3. Copied(Width * word)'
      BY <1>3, <1>9, <2>2 DEF Copied
    <2>4. word' < HalfPage'
      BY <1>2, <2>1
    <2>5. Writing'
      BY <1>1, <1>6, <1>7, <2>1, <2>3, <2>4 DEF Writing
    <2>6. QED
      BY <1>1, <1>3, <1>5, <1>6, <1>7, <2>5 DEF InOrder
  <1>12. QED
    BY <1>10, <1>11

\* The page is written: on to the next, or to the end.
LEMMA PageOverStep ==
  ASSUME Types, Updating, PageOver, Steps
  PROVE  Types' /\ InOrder /\ (Updating' \/ Ended')
  <1> USE DEF Updating
  <1>1. ver' = ver /\ want' = want
    BY ByName
  <1>2. CASE Head(todo) \in {"wait", "NOOP"} /\ UpdateOver(Tail(todo))
    <2>1. Quiet
      BY <1>2, QuietSteps
    <2>2. Types' /\ Place' /\ Spare'
      BY <1>1, <2>1, QuietSame DEF PageOver
    <2>3. Done(call.top)' /\ Done(call.top + PageSize)' /\ Rest'
      BY <1>1, <2>1, UpdateSame DEF Quiet, PageOver
    <2>4. PageOver'
      BY <1>1, <1>2, <2>1, <2>2, <2>3 DEF Quiet, PageOver
    <2>5. QED
      BY <1>1, <2>1, <2>2, <2>3, <2>4 DEF Quiet, InOrder
  <1>3. CASE Head(todo) = "nextUpdate" /\ Tail(todo) = <<>>
    <2>1. /\ mem' = mem /\ pbuf' = pbuf /\ at' = at /\ buf' = buf /\ word' = word
          /\ call' = [call EXCEPT !.top = @ + MovesOn]
          /\ todo' = IF call.data = <<>> THEN <<>> ELSE call.script
      BY <1>3, ByName DEF NextUpdate, nvm
    <2>2. PICK p \in Nat \ {0}, t \in Nat, m \in Nat :
            p = PageSize /\ t = call.top /\ m = MovesOn /\ m = IF ver = 0 THEN 0 ELSE p
      BY Sizes0 DEF Types, CallType, MovesOn
    <2>3. /\ call'.script = call.script /\ call'.area = "flash" /\ call'.top = t + m
          /\ call'.off = 0 /\ call'.data = call.data /\ call'.size = call.size
          /\ call' = [script |-> call'.script, area |-> call'.area, top |-> call'.top, off |-> call'.off,
                      data |-> call'.data, size |-> call'.size]
      <3>1. call = [script |-> call.script, area |-> call.area, top |-> call.top, off |-> call.off,
                    data |-> call.data, size |-> call.size]
        BY DEF Types, CallType
      <3>2. QED
        BY <2>1, <2>2, <3>1 DEF PageOver, Rest
    <2>4. Types'
      <3>1. CallType'
        BY <2>3 DEF Types, CallType
      <3>2. QED
        BY <1>1, <2>1, <3>1 DEF Types, NvmType
    <2>5. Spare' /\ InOrder
      BY <1>1, <2>1 DEF Spare, InOrder, PageOver
    <2>6. CASE call.data = <<>>
      <3>1. \A l \in DOMAIN want : l[2] < t + p + 0
        BY <2>2, <2>6 DEF PageOver, Rest, Pending
      <3>2. \A l \in DOMAIN want : mem[l] \in want[l]
        BY <2>2, <3>1 DEF PageOver, Done
      <3>3. Ended'
        BY <1>1, <2>1, <2>5, <2>6, <3>2 DEF Ended, PageOver
      <3>4. QED
        BY <2>4, <2>5, <3>3
    <2>7. CASE call.data # <<>>
      <3>1. ver # 0 /\ m = p /\ Len(call.data) \in Nat /\ Len(call.data) >= 1
        BY <2>2, <2>7 DEF PageOver, Rest, Types, CallType
      <3>2. t + p + Len(call.data) <= Pages * PageSize /\ Pages * PageSize \in Nat
        BY <2>2, Sizes0, SMT DEF PageOver, Rest, Pending
      <3>3. (t + p) % p = 0 /\ t + p \in Nat /\ t + p < Pages * PageSize
        <4>1. PICK n \in Nat, e \in Nat : n = Len(call.data) /\ e = Pages * PageSize /\ n >= 1 /\ t + p + n <= e
          BY <3>1, <3>2
        <4>2. n >= 1 /\ t + p + n <= e
          BY <4>1
        <4>3. t + p < e /\ t + p \in Nat
          BY <4>2
        <4>4. t % p = 0
          BY <2>2 DEF Place
        <4>5. (t + p) % p = 0
          BY <4>4, NextPage
        <4>6. QED
          BY <4>1, <4>3, <4>5
      <3>4. t + p + PageSize <= Pages * PageSize
        BY <2>2, <3>3, PageFits
      <3>5. Place'
        BY <1>1, <2>2, <2>3, <3>1, <3>3, <3>4 DEF Place
      <3>6. call'.top + call'.off = t + p /\ call'.top = t + p
        BY <2>3, <3>1
      <3>7. Done(call.top)' /\ Done(call.top + call.off)'
        BY <1>1, <2>1, <2>2, <3>6 DEF Done, PageOver
      <3>8. Pending(call.top + call.off)'
        BY <1>1, <2>1, <2>2, <2>3, <3>6 DEF Pending, PageOver, Rest
      <3>9. UpdateFill(ver, call.script)' /\ UpdateBegun(ver, todo)'
        BY <1>1, <2>1, <2>3, <2>7 DEF UpdateBegun
      <3>10. call'.off < PageSize /\ call'.data # <<>> /\ word' = 0
        BY <2>1, <2>2, <2>3, <2>7 DEF PageOver
      <3>11. ToFill'
        BY <1>1, <2>5, <3>1, <3>7, <3>8, <3>9, <3>10 DEF ToFill
      <3>12. QED
        BY <2>3, <2>4, <2>5, <3>5, <3>7, <3>9, <3>11
    <2>8. QED
      BY <2>6, <2>7
  <1>4. QED
    BY <1>2, <1>3, UpdateOverSteps DEF PageOver

\* A step of a call that writes pages: in the order of the addresses.
LEMMA UpdateStep ==
  ASSUME Types, Updating, Steps
  PROVE  Types' /\ InOrder /\ (Updating' \/ Ended')
  <1>1. CASE ToFill
    BY <1>1, ToFillStep
  <1>2. CASE Filled
    BY <1>2, FilledStep
  <1>3. CASE Writing /\ ver = 2
    BY <1>3, WritingNow
  <1>4. CASE Writing /\ ver # 2
    BY <1>4, WritingThen
  <1>5. CASE Armed
    BY <1>5, ArmedStep
  <1>6. CASE PageOver
    BY <1>6, PageOverStep
  <1>7. QED
    BY <1>1, <1>2, <1>3, <1>4, <1>5, <1>6 DEF Updating

-----------------------------------------------------------------------------
(* Writing a row.                                                          *)

\* With an erase, each byte of the row is the source's or erased.
Wiped == \A l \in Loc : l[1] = call.area =>
           l \in DOMAIN want /\ (IF l[2] < Len(call.data) THEN call.data[l[2] + 1] ELSE Erased) \in want[l]

\* The page buffer has taken n bytes of the source.
Taken(n) == \A i \in Places : /\ i < n => pbuf[i] = call.data[i + 1]
                              /\ i >= n /\ i # 0 => pbuf[i] = Erased

RowToStore(wipe) == RowBegun(ver, wipe, todo) /\ word = 0 /\ Spare

StoringRow(wipe) ==
  /\ RowStoring(ver, wipe, todo) /\ word < Len(call.data)
  /\ IF ver = 2 THEN cmd = "FLWR" /\ Done(word) ELSE Taken(word)

RowIn(wipe) == RowStored(ver, wipe, todo) /\ word = 0 /\ OnPage(at) /\ Taken(Len(call.data))

RowDone == RowOver(todo) /\ word = 0 /\ Spare /\ \A l \in DOMAIN want : mem[l] \in want[l]

Row(wipe) ==
  /\ Place /\ call.area # "flash" /\ call.data # <<>> /\ Len(call.data) <= RowSize
  /\ IF wipe THEN Wiped ELSE Pending(0)
  /\ RowToStore(wipe) \/ StoringRow(wipe) \/ RowIn(wipe) \/ RowDone

Saving == \E wipe \in BOOLEAN : Row(wipe)

\* The source of a row.
LEMMA RowSource ==
  ASSUME Types, NEW wipe, Row(wipe)
  PROVE  /\ Len(call.data) \in Nat \ {0} /\ call.top = 0 /\ call.top + PageSize \in Nat
         /\ \A l \in Loc : l[1] = call.area => l[2] \in Places /\ l[2] < RowSize /\ OnPage(l)
         /\ \A l \in DOMAIN want : l \in Loc /\ l[1] = call.area
         /\ \A i \in Nat : i < Len(call.data) => call.data[i + 1] \in Byte /\ i \in Places
  <1>1. call.data \in Seq(Byte) /\ call.data # <<>> /\ call.area # "flash" /\ call.top = 0
    BY DEF Types, CallType, Row, Place
  <1>2. Len(call.data) \in Nat \ {0}
    BY <1>1
  <1>3. PICK n \in Nat, r \in Nat, p \in Nat :
          n = Len(call.data) /\ r = RowSize /\ p = PageSize /\ n <= r /\ r <= p
    BY <1>2, Sizes0 DEF Row
  <1>4. ASSUME NEW l \in Loc, l[1] = call.area
        PROVE  l[2] \in Places /\ l[2] < RowSize /\ OnPage(l)
    <2>1. PICK z \in Nat : z = l[2] /\ z < r
      BY <1>1, <1>3, <1>4, Locs
    <2>2. z \in 0 .. p - 1 /\ 0 <= z /\ z < 0 + p
      BY <1>3, <2>1
    <2>3. QED
      BY <1>1, <1>3, <1>4, <2>1, <2>2 DEF Places, OnPage
  <1>5. ASSUME NEW i \in Nat, i < Len(call.data) PROVE call.data[i + 1] \in Byte /\ i \in Places
    <2>1. i + 1 \in 1 .. n /\ i \in 0 .. p - 1
      BY <1>3, <1>5
    <2>2. QED
      BY <1>1, <1>3, <2>1 DEF Places
  <1>6. \A l \in DOMAIN want : l \in Loc /\ l[1] = call.area
    BY DEF Types, Row, Place
  <1>7. Len(call.data) \in Nat \ {0} /\ call.top = 0 /\ call.top + PageSize \in Nat
    BY <1>1, <1>2, <1>3
  <1>8. QED
    BY <1>4, <1>5, <1>6, <1>7

\* Sweeping is an order.
LEMMA SweepOrder ==
  ASSUME Types, Sweeps
  PROVE  InOrder
  <1>1. call.top + PageSize \in Nat
    BY Sizes0 DEF Types, CallType
  <1>2. mem' = mem \/ Moves(call.top + PageSize)
    BY DEF Sweeps
  <1>3. QED
    BY <1>1, <1>2 DEF InOrder

\* What a row promises is not touched by a step that leaves the memory alone.
LEMMA RowSame ==
  ASSUME call' = call, want' = want, mem' = mem
  PROVE  (Wiped => Wiped') /\ (Pending(0) => Pending(0)')
  BY DEF Wiped, Pending

\* Before the stores.
LEMMA RowToStoreStep ==
  ASSUME Types, NEW wipe \in BOOLEAN, Row(wipe), RowToStore(wipe), Steps
  PROVE  Types' /\ Sweeps /\ Row(wipe)'
  <1> USE DEF Row, RowToStore
  <1>1. ver' = ver /\ want' = want
    BY ByName
  <1>2. Quiet /\ (Head(todo) = "FLWR" => cmd' = "FLWR")
    <2>1. CASE Head(todo) \in {"wait", "NOOP"}
      BY <2>1, QuietSteps
    <2>2. CASE Head(todo) = "FLWR" /\ ver = 2
      BY <2>2, ByName, CommandNow DEF Quiet
    <2>3. QED
      BY <2>1, <2>2, RowBegunSteps
  <1>3. Types' /\ Place' /\ Spare' /\ Sweeps
    BY <1>1, <1>2, QuietSame
  <1>4. (Wiped => Wiped') /\ (Pending(0) => Pending(0)')
    BY <1>1, <1>2, RowSame DEF Quiet
  <1>5. Len(call.data) \in Nat \ {0}
    BY RowSource
  <1>6. CASE RowBegun(ver, wipe, Tail(todo))
    BY <1>1, <1>2, <1>3, <1>4, <1>6 DEF Quiet
  <1>7. CASE RowStoring(ver, wipe, Tail(todo)) /\ (ver = 2 => Head(todo) = "FLWR")
    <2>1. ver = 2 => Done(word)'
      <3>1. \A l \in DOMAIN want : ~(l[2] < 0)
        BY Locs DEF Types
      <3>2. QED
        BY <1>1, <1>2, <3>1 DEF Done, Quiet
    <2>2. ver # 2 => Taken(word)'
      <3>1. \A i \in Places : ~(i < 0)
        BY DEF Places
      <3>2. QED
        BY <1>1, <1>2, <3>1 DEF Taken, Quiet, Spare
    <2>3. 0 < Len(call.data)
      BY <1>5
    <2>4. StoringRow(wipe)'
      BY <1>1, <1>2, <1>7, <2>1, <2>2, <2>3 DEF Quiet, StoringRow
    <2>5. QED
      BY <1>2, <1>3, <1>4, <2>4 DEF Quiet
  <1>8. QED
    BY <1>6, <1>7, RowBegunSteps

\* The stores of version 2: each is final.
LEMMA StoringNow ==
  ASSUME Types, NEW wipe \in BOOLEAN, Row(wipe), StoringRow(wipe), Steps, ver = 2
  PROVE  Types' /\ InOrder /\ Row(wipe)'
  <1> USE DEF Row, StoringRow
  <1>1. ver' = ver /\ want' = want /\ nvm_stz /\ RowOver(Tail(todo)) /\ ~wipe
    BY StoringSteps, ByName DEF RowStoring
  <1>2. /\ at' \in Loc /\ call' = call /\ buf' = buf /\ pbuf' = pbuf /\ cmd' = cmd /\ mem' \in [Loc -> Byte]
        /\ IF word + 1 = Len(call.data) THEN todo' = Tail(todo) /\ word' = 0 ELSE todo' = todo /\ word' = word + 1
        /\ \A l \in Loc : mem'[l] = IF l[1] = call.area /\ l[2] = word
                                    THEN mem[l] \cap call.data[word + 1] ELSE mem[l]
    BY <1>1, StoredByte
  <1>3. PICK w \in Nat, n \in Nat : w = word /\ n = Len(call.data) /\ w < n
    BY RowSource DEF Types
  <1>4. /\ call.data[word + 1] \in Byte /\ \A l \in DOMAIN want : l \in Loc /\ l[1] = call.area /\ l[2] \in Nat
    BY <1>3, RowSource, Locs
  <1>5. ASSUME NEW l \in Loc, l[1] = call.area, l[2] = word
        PROVE  /\ l \in DOMAIN want /\ mem'[l] \in want[l] /\ mem'[l] = mem[l] \cap call.data[word + 1]
               /\ mem'[l] \cap call.data[word + 1] = mem'[l]
    <2>1. /\ 0 <= w /\ w < 0 + n /\ (w - 0) + 1 = w + 1
      BY <1>3
    <2>2. l \in DOMAIN want /\ mem[l] \cap call.data[w + 1] \in want[l]
      BY <1>1, <1>3, <1>5, <2>1 DEF Pending
    <2>3. (mem[l] \cap call.data[word + 1]) \cap call.data[word + 1] = mem[l] \cap call.data[word + 1]
      BY <1>4, Bytes DEF Types, NvmType
    <2>4. QED
      BY <1>2, <1>3, <1>5, <2>2, <2>3
  <1>6. Types' /\ Place'
    <2>1. word' \in Nat
      BY <1>2, <1>3
    <2>2. QED
      BY <1>1, <1>2, <2>1, SameTypes, SamePage DEF Types, NvmType
  <1>7. Pending(0)'
    <2>1. ASSUME NEW l \in Loc, l[1] = call.area, 0 <= l[2], l[2] < 0 + Len(call.data)
          PROVE  l \in DOMAIN want /\ mem'[l] \cap call.data[(l[2] - 0) + 1] \in want[l]
      <3>1. CASE l[2] = word
        <4>1. (l[2] - 0) + 1 = word + 1
          BY <1>3, <3>1
        <4>2. QED
          BY <1>5, <2>1, <3>1, <4>1
      <3>2. CASE l[2] # word
        BY <1>1, <1>2, <2>1, <3>2 DEF Pending
      <3>3. QED
        BY <3>1, <3>2
    <2>2. QED
      BY <1>1, <1>2, <2>1 DEF Pending
  <1>8. ASSUME NEW l \in DOMAIN want, l[2] < w + 1 PROVE mem'[l] \in want[l]
    <2>1. CASE l[2] = word
      BY <1>4, <1>5, <2>1
    <2>2. CASE l[2] # word
      <3>1. PICK z \in Nat : z = l[2]
        BY <1>4
      <3>2. z < w
        BY <1>3, <1>8, <2>2, <3>1
      <3>3. QED
        BY <1>2, <1>3, <1>4, <2>2, <3>1, <3>2 DEF Done
    <2>3. QED
      BY <2>1, <2>2
  <1>9. InOrder
    <2>1. \A l \in Loc : mem'[l] # mem[l] => l \in DOMAIN want /\ l[2] < w + 1
      BY <1>2, <1>3, <1>5
    <2>2. w + 1 \in Nat
      OBVIOUS
    <2>3. QED
      BY <1>8, <2>1, <2>2 DEF InOrder, Moves
  <1>10. CASE w + 1 = n
    <2>1. ASSUME NEW l \in DOMAIN want PROVE mem'[l] \in want[l]
      <3>1. PICK z \in Nat : z = l[2] /\ z < 0 + n
        BY <1>1, <1>3, <1>4 DEF Pending
      <3>2. z < w + 1
        BY <1>10, <3>1
      <3>3. QED
        BY <1>8, <3>1, <3>2
    <2>2. RowDone'
      BY <1>1, <1>2, <1>3, <1>10, <2>1 DEF RowDone, Spare
    <2>3. QED
      BY <1>1, <1>2, <1>6, <1>7, <1>9, <2>2
  <1>11. CASE w + 1 # n
    <2>1. word' = w + 1 /\ todo' = todo /\ w + 1 < n
      BY <1>2, <1>3, <1>11
    <2>2. Done(word)'
      BY <1>1, <1>8, <2>1 DEF Done
    <2>3. StoringRow(wipe)'
      BY <1>1, <1>2, <1>3, <2>1, <2>2
    <2>4. QED
      BY <1>1, <1>2, <1>6, <1>7, <1>9, <2>3
  <1>12. QED
    BY <1>10, <1>11

\* The stores of the others: into the page buffer.
LEMMA StoringThen ==
  ASSUME Types, NEW wipe \in BOOLEAN, Row(wipe), StoringRow(wipe), Steps, ver # 2
  PROVE  Types' /\ Sweeps /\ Row(wipe)'
  <1> USE DEF Row, StoringRow
  <1>1. ver' = ver /\ want' = want /\ nvm_stz /\ RowStored(ver, wipe, Tail(todo))
    BY StoringSteps, ByName
  <1>2. /\ at' \in Loc /\ OnPage(at') /\ call' = call /\ buf' = buf /\ mem' = mem /\ pbuf' \in [Places -> Byte]
        /\ IF word + 1 = Len(call.data) THEN todo' = Tail(todo) /\ word' = 0 ELSE todo' = todo /\ word' = word + 1
        /\ \A i \in Places : pbuf'[i] = IF i = word THEN call.data[i + 1] ELSE pbuf[i]
    BY <1>1, StoredByte
  <1>3. PICK w \in Nat, n \in Nat : w = word /\ n = Len(call.data) /\ w < n
    BY RowSource DEF Types
  <1>4. Types' /\ Place' /\ OnPage(at)'
    <2>1. word' \in Nat
      BY <1>2, <1>3
    <2>2. QED
      BY <1>1, <1>2, <2>1, SameTypes, SamePage DEF Types, NvmType, OnPage
  <1>5. (Wiped => Wiped') /\ (Pending(0) => Pending(0)') /\ Sweeps
    BY <1>1, <1>2, RowSame DEF Sweeps
  <1>6. ASSUME NEW i \in Places
        PROVE  (i < w + 1 => pbuf'[i] = call.data[i + 1]) /\ (i >= w + 1 /\ i # 0 => pbuf'[i] = Erased)
    <2>1. i \in Int
      BY DEF Places
    <2>2. (i < w => pbuf[i] = call.data[i + 1]) /\ (i >= w /\ i # 0 => pbuf[i] = Erased)
      BY <1>3 DEF Taken
    <2>3. pbuf'[i] = IF i = w THEN call.data[i + 1] ELSE pbuf[i]
      BY <1>2, <1>3
    <2>4. (i < w + 1 => i < w \/ i = w) /\ (i >= w + 1 => i >= w /\ i # w)
      BY <2>1
    <2>5. QED
      BY <2>2, <2>3, <2>4
  <1>7. CASE w + 1 = n
    <2>1. Taken(Len(call.data))'
      BY <1>2, <1>3, <1>6, <1>7 DEF Taken
    <2>2. RowIn(wipe)'
      BY <1>1, <1>2, <1>3, <1>4, <1>7, <2>1 DEF RowIn
    <2>3. QED
      BY <1>2, <1>4, <1>5, <2>2
  <1>8. CASE w + 1 # n
    <2>1. word' = w + 1 /\ todo' = todo /\ w + 1 < n
      BY <1>2, <1>3, <1>8
    <2>2. Taken(word)'
      BY <1>2, <1>6, <2>1 DEF Taken
    <2>3. StoringRow(wipe)'
      BY <1>1, <1>2, <1>3, <2>1, <2>2
    <2>4. QED
      BY <1>2, <1>4, <1>5, <2>3
  <1>9. QED
    BY <1>7, <1>8

\* The command that programs the row.
LEMMA RowInStep ==
  ASSUME Types, NEW wipe \in BOOLEAN, Row(wipe), RowIn(wipe), Steps
  PROVE  Types' /\ Sweeps /\ Row(wipe)'
  <1> USE DEF Row, RowIn
  <1>1. /\ ver' = ver /\ want' = want /\ nvm_cmd /\ ver # 2 /\ RowOver(Tail(todo))
        /\ Head(todo) = IF wipe THEN "FLPERW" ELSE "FLPW"
    BY StoredSteps, ByName
  <1>2. /\ at' = at /\ todo' = Tail(todo) /\ call' = call /\ buf' = buf /\ word' = word
        /\ pbuf' = NoBuffer /\ mem' \in [Loc -> Byte] /\ pbuf' \in [Places -> Byte]
        /\ \A l \in Loc : ~OnPage(l) => mem'[l] = mem[l]
        /\ \A l \in Loc : OnPage(l) => mem'[l] = IF wipe THEN pbuf[l[2] - call.top]
                                                         ELSE mem[l] \cap pbuf[l[2] - call.top]
    BY <1>1, CommandThen
  <1>3. /\ Len(call.data) \in Nat \ {0} /\ call.top = 0
        /\ \A l \in Loc : l[1] = call.area => l[2] \in Places /\ OnPage(l)
        /\ \A l \in DOMAIN want : l \in Loc /\ l[1] = call.area
    BY RowSource
  <1>4. Types' /\ Place'
    BY <1>1, <1>2, SameTypes, SamePage DEF Types, NvmType
  <1>5. ASSUME NEW l \in Loc, l[1] = call.area
        PROVE  IF l \in DOMAIN want THEN mem'[l] \in want[l] ELSE mem'[l] = mem[l]
    <2>1. PICK z \in Nat, n \in Nat : z = l[2] /\ n = Len(call.data) /\ n >= 1 /\ z \in Places /\ OnPage(l)
      BY <1>3, <1>5 DEF Places
    <2>2. l[2] - call.top = z /\ (z - 0) + 1 = z + 1
      BY <1>3, <2>1
    <2>3. mem'[l] = IF wipe THEN pbuf[z] ELSE mem[l] \cap pbuf[z]
      BY <1>2, <2>1, <2>2
    <2>4. pbuf[z] = IF z < n THEN call.data[z + 1] ELSE Erased
      <3>1. z < n \/ (z >= n /\ z # 0)
        BY <2>1
      <3>2. QED
        BY <2>1, <3>1 DEF Taken
    <2>5. CASE wipe
      BY <1>5, <2>1, <2>3, <2>4, <2>5 DEF Wiped
    <2>6. CASE ~wipe /\ z < n
      <3>1. 0 <= z /\ z < 0 + n
        BY <2>6
      <3>2. l \in DOMAIN want /\ mem[l] \cap call.data[z + 1] \in want[l]
        BY <1>5, <2>1, <2>2, <2>6, <3>1 DEF Pending
      <3>3. QED
        BY <2>3, <2>4, <2>6, <3>2
    <2>7. CASE ~wipe /\ ~(z < n)
      <3>1. ~(z < 0 + n)
        BY <2>7
      <3>2. l \notin DOMAIN want
        BY <2>1, <2>7, <3>1 DEF Pending
      <3>3. mem[l] \cap Erased = mem[l]
        BY Bytes DEF Types, NvmType
      <3>4. QED
        BY <2>3, <2>4, <2>7, <3>2, <3>3
    <2>8. QED
      BY <2>5, <2>6, <2>7
  <1>6. \A l \in DOMAIN want : mem'[l] \in want[l]
    BY <1>3, <1>5
  <1>7. Sweeps
    <2>1. \A l \in Loc : mem'[l] # mem[l] => OnPage(l) /\ l \in DOMAIN want
      BY <1>2, <1>5 DEF OnPage
    <2>2. QED
      BY <1>6, <2>1 DEF Sweeps, Moves, OnPage
  <1>8. IF wipe THEN Wiped' ELSE Pending(0)'
    <2>1. CASE wipe
      BY <1>1, <1>2, <2>1 DEF Wiped
    <2>2. CASE ~wipe
      <3>1. ASSUME NEW l \in Loc, l[1] = call.area, 0 <= l[2], l[2] < 0 + Len(call.data)
            PROVE  l \in DOMAIN want /\ mem'[l] \cap call.data[(l[2] - 0) + 1] \in want[l]
        <4>1. PICK z \in Nat, n \in Nat : z = l[2] /\ n = Len(call.data) /\ z < n /\ z \in Places /\ OnPage(l)
          BY <1>3, <3>1 DEF Places
        <4>2. l[2] - call.top = z /\ (l[2] - 0) + 1 = z + 1
          BY <1>3, <4>1
        <4>3. pbuf[z] = call.data[z + 1]
          BY <4>1 DEF Taken
        <4>4. mem'[l] = mem[l] \cap call.data[z + 1]
          BY <1>2, <2>2, <4>1, <4>2, <4>3
        <4>5. call.data[z + 1] \in Byte /\ mem[l] \in Byte
          BY <4>1, RowSource DEF Types, NvmType
        <4>6. mem'[l] \cap call.data[z + 1] = mem'[l]
          BY <4>4, <4>5, Bytes
        <4>7. l \in DOMAIN want
          BY <2>2, <3>1 DEF Pending
        <4>8. QED
          BY <1>6, <4>2, <4>6, <4>7
      <3>2. QED
        BY <1>1, <1>2, <2>2, <3>1 DEF Pending
    <2>3. QED
      BY <2>1, <2>2
  <1>9. Spare'
    BY <1>2 DEF Spare, NoBuffer, Places
  <1>10. RowDone'
    BY <1>1, <1>2, <1>6, <1>9 DEF RowDone
  <1>11. QED
    BY <1>1, <1>2, <1>4, <1>7, <1>8, <1>10

\* Behind the row that is written.
LEMMA RowDoneStep ==
  ASSUME Types, NEW wipe \in BOOLEAN, Row(wipe), RowDone, Steps
  PROVE  Types' /\ Sweeps /\ (Row(wipe)' \/ Ended')
  <1> USE DEF Row, RowDone
  <1>1. ver' = ver /\ want' = want
    BY ByName
  <1>2. Quiet /\ (RowOver(Tail(todo)) \/ Tail(todo) = <<>>)
    BY RowOverSteps, QuietSteps
  <1>3. Types' /\ Place' /\ Spare' /\ Sweeps
    BY <1>1, <1>2, QuietSame
  <1>4. (Wiped => Wiped') /\ (Pending(0) => Pending(0)')
    BY <1>1, <1>2, RowSame DEF Quiet
  <1>5. CASE Tail(todo) = <<>>
    BY <1>1, <1>2, <1>3, <1>5 DEF Quiet, Ended
  <1>6. CASE RowOver(Tail(todo))
    BY <1>1, <1>2, <1>3, <1>4, <1>6 DEF Quiet
  <1>7. QED
    BY <1>2, <1>5, <1>6

\* A step of a call that writes a row.
LEMMA RowStep ==
  ASSUME Types, Saving, Steps
  PROVE  Types' /\ InOrder /\ (ver # 2 => Sweeps) /\ (Saving' \/ Ended')
  <1>1. PICK wipe \in BOOLEAN : Row(wipe)
    BY DEF Saving
  <1>2. CASE RowToStore(wipe)
    BY <1>1, <1>2, RowToStoreStep, SweepOrder DEF Saving
  <1>3. CASE StoringRow(wipe) /\ ver = 2
    BY <1>1, <1>3, StoringNow DEF Saving
  <1>4. CASE StoringRow(wipe) /\ ver # 2
    BY <1>1, <1>4, StoringThen, SweepOrder DEF Saving
  <1>5. CASE RowIn(wipe)
    BY <1>1, <1>5, RowInStep, SweepOrder DEF Saving
  <1>6. CASE RowDone
    BY <1>1, <1>6, RowDoneStep, SweepOrder DEF Saving
  <1>7. QED
    BY <1>1, <1>2, <1>3, <1>4, <1>5, <1>6 DEF Row

-----------------------------------------------------------------------------
(* The calls.                                                              *)

\* A call is over, or under way.
Job == Ended \/ Clearing \/ Updating \/ Saving

\* How a call begins, whatever it is about.
LEMMA Begun ==
  ASSUME Types, Ended, NEW first, NEW script, NEW area \in Areas, NEW top \in Nat, NEW off \in Nat,
         NEW data \in Seq(Byte), NEW size \in Nat, NEW w, DOMAIN w \subseteq Loc,
         Begin(first, script, area, top, off, data, size, w)
  PROVE  ver' = ver /\ mem' = mem /\ Types' /\ Spare' /\ word' = 0 /\ want' = w
  <1>1. /\ ver' = ver /\ mem' = mem /\ pbuf' = pbuf /\ at' = at /\ buf' = buf /\ word' = 0 /\ want' = w
        /\ call' = [script |-> script, area |-> area, top |-> top, off |-> off, data |-> data, size |-> size]
    BY DEF Begin, nvm
  <1>2. CallType'
    BY <1>1 DEF CallType
  <1>3. Types'
    BY <1>1, <1>2 DEF Types, NvmType
  <1>4. Spare'
    BY <1>1 DEF Ended, Spare
  <1>5. QED
    BY <1>1, <1>3, <1>4

\* A script with nothing before it.
Names == {"wait", "NOOP", "dummy", "fill", "write", "store", "nextErase", "nextUpdate",
          "FLPER", "FLWR", "FLPW", "FLPERW", "FLPBCLR"}

\* A script behind nothing.
LEMMA Before ==
  ASSUME NEW s \in Seq(Names)
  PROVE  <<>> \o s = s
  BY SMT

\* The pages of a size.
LEMMA Ceiling ==
  ASSUME NEW p \in Nat \ {0}, NEW s \in Nat \ {0}
  PROVE  \E n \in Nat \ {0} : n = (s + p - 1) \div p /\ (n - 1) * p < s /\ s <= n * p /\ n * p \in Nat
  <1>1. PICK x \in Nat : x = s + p - 1
    OBVIOUS
  <1>2. PICK n \in Nat, m \in Nat : n = x \div p /\ m = x % p /\ x = p * n + m /\ m < p
    BY DivMod
  <1>3. n # 0
    <2>1. SUFFICES ASSUME n = 0 PROVE FALSE
      OBVIOUS
    <2>2. p * n = 0
      BY <2>1
    <2>3. QED
      BY <1>1, <1>2, <2>2
  <1>4. PICK y \in Nat : y = p * n /\ y = n * p /\ (n - 1) * p = y - p
    BY SMT
  <1>5. y - p < s /\ s <= y
    BY <1>1, <1>2, <1>4
  <1>6. QED
    BY <1>1, <1>2, <1>3, <1>4, <1>5

\* What a call to erase pages promises, and that it is one that clears.
LEMMA EraseCalled ==
  ASSUME Types, Ended, NEW a \in Nat, NEW size \in Nat \ {0}, InMemory(a - (a % PageSize), size),
         page_erase_PF(a, size)
  PROVE  /\ ver' = ver /\ mem' = mem /\ Types' /\ Clearing' /\ want' # Nothing
         /\ \A l \in Loc : l[1] = "flash" /\ a <= l[2] /\ l[2] < a - (a % PageSize) + PageSize
                          => l \in DOMAIN want'
         /\ \A l \in DOMAIN want' : want'[l] = {Erased}
  <1>1. PICK p \in Nat \ {0}, q \in Nat, o \in Nat, t \in Nat, e \in Nat :
          /\ p = PageSize /\ o = a % PageSize /\ t = a - (a % PageSize) /\ t = p * q /\ a = t + o /\ o < p
          /\ e = Pages * PageSize /\ t + size <= e
    <2>1. PageSize \in Nat \ {0} /\ Pages * PageSize \in Nat
      BY Sizes0, SMT
    <2>2. PICK p \in Nat \ {0} : p = PageSize
      BY <2>1
    <2>3. PICK q \in Nat, o \in Nat : q = a \div p /\ o = a % p /\ a = p * q + o /\ o < p
      BY DivMod
    <2>4. PICK t \in Nat : t = p * q
      BY SMT
    <2>5. t = a - o
      BY <2>3, <2>4
    <2>6. QED
      BY <2>1, <2>2, <2>3, <2>4, <2>5 DEF InMemory
  <1>2. t % PageSize = 0
    <2>1. (p * q + 0) % p = 0
      BY DivIs
    <2>2. p * q + 0 = t
      BY <1>1
    <2>3. QED
      BY <1>1, <2>1, <2>2
  <1>3. PICK n \in Nat \ {0}, x \in Nat, y \in Int :
          /\ n = (size + PageSize - 1) \div PageSize /\ x = n * PageSize /\ x = Extent(n)
          /\ y = Extent(n - 1) /\ y < size /\ size <= x /\ y = x - p
    <2>1. PICK n \in Nat \ {0} : n = (size + p - 1) \div p /\ (n - 1) * p < size /\ size <= n * p /\ n * p \in Nat
      BY Ceiling
    <2>2. Extent(n) = n * PageSize /\ Extent(n - 1) = (n - 1) * PageSize
      BY DEF Extent
    <2>3. Extent(n) \in Nat /\ Extent(n - 1) = Extent(n) - PageSize
      BY Extents
    <2>4. PICK x \in Nat : x = n * p
      BY <2>1
    <2>5. Extent(n) = x /\ Extent(n - 1) = x - p
      BY <1>1, <2>2, <2>3, <2>4
    <2>6. (n - 1) * p = x - p
      BY <1>1, <2>2, <2>5
    <2>7. x - p < size /\ size <= x /\ x - p \in Int
      BY <2>1, <2>4, <2>6
    <2>8. QED
      BY <1>1, <2>1, <2>4, <2>5, <2>7
  <1>4. t + x <= e
    <2>1. PICK z \in Int : z = t + y
      OBVIOUS
    <2>2. z \in Nat /\ z % PageSize = 0 /\ z < e
      <3>1. PICK k \in Nat : k = n - 1
        OBVIOUS
      <3>2. y = k * p
        BY <1>1, <1>3, <3>1 DEF Extent
      <3>3. k * p = p * k /\ p * q + p * k = p * (q + k) /\ k * p \in Nat
        BY SMT
      <3>4. z = p * (q + k) + 0 /\ z \in Nat /\ q + k \in Nat
        BY <1>1, <2>1, <3>2, <3>3
      <3>5. z % p = 0
        BY <3>4, DivIs
      <3>6. z < e
        BY <1>1, <1>3, <2>1
      <3>7. QED
        BY <1>1, <3>4, <3>5, <3>6
    <2>3. z + PageSize <= Pages * PageSize
      BY <1>1, <2>2, PageFits
    <2>4. z + p <= e
      BY <1>1, <2>3
    <2>5. z + p = t + x
      BY <1>3, <2>1
    <2>6. QED
      BY <2>4, <2>5
  <1> DEFINE w == Ones("flash", t, t + x - 1)
  <1>5. /\ DOMAIN w = {<<"flash", i>> : i \in t .. t + x - 1} /\ DOMAIN w \subseteq Loc
        /\ \A l \in DOMAIN w : w[l] = {Erased}
    <2>1. DOMAIN w = {<<"flash", i>> : i \in t .. t + x - 1} /\ \A l \in DOMAIN w : w[l] = {Erased}
      BY DEF Ones
    <2>2. \A i \in t .. t + x - 1 : i \in Nat /\ i < e
      BY <1>4
    <2>3. \A i \in t .. t + x - 1 : <<"flash", i>> \in Loc
      BY <1>1, <2>2, Locs
    <2>4. QED
      BY <2>1, <2>3
  <1>6. \A l \in Loc : l \in DOMAIN w <=> l[1] = "flash" /\ t <= l[2] /\ l[2] < t + x
    <2> SUFFICES ASSUME NEW l \in Loc
                 PROVE  l \in DOMAIN w <=> l[1] = "flash" /\ t <= l[2] /\ l[2] < t + x
      OBVIOUS
    <2>1. PICK z \in Nat : z = l[2] /\ l = <<l[1], z>>
      BY Locs
    <2>2. z \in t .. t + x - 1 <=> t <= z /\ z < t + x
      OBVIOUS
    <2>3. l \in DOMAIN w <=> l[1] = "flash" /\ z \in t .. t + x - 1
      BY <1>5, <2>1
    <2>4. QED
      BY <2>1, <2>2, <2>3
  <1> HIDE DEF w
  <1>7. Begin(<<>>, EraseScript, "flash", t, 0, <<>>, size, w)
    BY <1>1, <1>3 DEF page_erase_PF, w
  <1>8. EraseScript \in Seq(Names) /\ ClearFresh(ver, "flash", EraseScript)
    <2>1. EraseDx \in Seq(Names) /\ EraseEx \in Seq(Names) /\ Erase0 \in Seq(Names)
      BY DEF Names, EraseDx, EraseEx, Erase0
    <2>2. QED
      BY <2>1 DEF EraseScript, ClearFresh, Types, NvmType
  <1>9. /\ ver' = ver /\ mem' = mem /\ Types' /\ Spare' /\ todo' = EraseScript /\ word' = 0 /\ want' = w
        /\ call'.script = EraseScript /\ call'.area = "flash" /\ call'.top = t /\ call'.size = size
    <2>1. "flash" \in Areas /\ <<>> \in Seq(Byte) /\ 0 \in Nat /\ DOMAIN w \subseteq Loc
      BY <1>5 DEF Areas
    <2>2. ver' = ver /\ mem' = mem /\ Types' /\ Spare' /\ word' = 0 /\ want' = w
      BY <1>7, <2>1, Begun
    <2>3. /\ todo' = <<>> \o EraseScript
          /\ call' = [script |-> EraseScript, area |-> "flash", top |-> t, off |-> 0, data |-> <<>>, size |-> size]
      BY <1>7 DEF Begin
    <2>4. call'.script = EraseScript /\ call'.area = "flash" /\ call'.top = t /\ call'.size = size
      BY <2>3
    <2>5. QED
      BY <1>8, <2>2, <2>3, <2>4, Before
  <1>10. Place'
    <2>1. t + p <= e
      <3>1. x >= p
        BY <1>1, <1>3, Extents
      <3>2. QED
        BY <1>4, <3>1
    <2>2. QED
      BY <1>1, <1>2, <1>5, <1>9, <2>1 DEF Place
  <1>11. Done(call.top)'
    <2>1. \A l \in DOMAIN w : ~(l[2] < t)
      <3> SUFFICES ASSUME NEW l \in DOMAIN w PROVE ~(l[2] < t)
        OBVIOUS
      <3>1. PICK z \in Nat : z = l[2]
        BY <1>5, Locs
      <3>2. t <= z
        BY <1>5, <1>6, <3>1
      <3>3. QED
        BY <3>1, <3>2
    <2>2. QED
      BY <1>9, <2>1 DEF Done
  <1>12. ClearTo(n)'
    <2>1. \A l \in DOMAIN w : l[2] < t + x
      BY <1>5, <1>6
    <2>2. QED
      BY <1>1, <1>3, <1>4, <1>5, <1>6, <1>8, <1>9, <2>1 DEF ClearTo
  <1>13. Clears(n)'
    BY <1>8, <1>9, <1>10, <1>11, <1>12 DEF Clears
  <1>14. want' # Nothing
    <2>1. t \in t .. t + x - 1
      <3>1. x >= 1
        BY <1>3
      <3>2. QED
        BY <3>1
    <2>2. DOMAIN w # {}
      BY <1>5, <2>1
    <2>3. QED
      BY <1>9, <2>2 DEF Nothing
  <1>15. ASSUME NEW l \in Loc, l[1] = "flash", a <= l[2], l[2] < a - (a % PageSize) + PageSize
         PROVE  l \in DOMAIN w
    <2>1. PICK z \in Nat : z = l[2] /\ a <= z /\ z < t + p
      BY <1>1, <1>15, Locs
    <2>2. a = t + o /\ p <= x
      BY <1>1, <1>3, Extents
    <2>3. t <= z /\ z < t + x
      BY <2>1, <2>2
    <2>4. QED
      BY <1>6, <1>15, <2>1, <2>3
  <1>16. QED
    BY <1>5, <1>9, <1>13, <1>14, <1>15 DEF Clearing

\* What Anded and Ones promise, and where.
LEMMA AndedIs ==
  ASSUME Types, NEW area \in Areas, NEW from \in Nat, NEW d \in Seq(Byte),
         IF area = "flash" THEN from + Len(d) <= Pages * PageSize ELSE from + Len(d) <= RowSize
  PROVE  /\ DOMAIN Anded(area, from, d) \subseteq Loc
         /\ \A l \in Loc : l \in DOMAIN Anded(area, from, d)
                           <=> l[1] = area /\ from <= l[2] /\ l[2] < from + Len(d)
         /\ \A l \in DOMAIN Anded(area, from, d) : Anded(area, from, d)[l] = {mem[l] \cap d[(l[2] - from) + 1]}
  <1>1. PICK k \in Nat, e \in Nat :
          /\ k = Len(d) /\ e = IF area = "flash" THEN Pages * PageSize ELSE RowSize
          /\ from + k <= e
    <2>1. Pages * PageSize \in Nat /\ RowSize \in Nat /\ Len(d) \in Nat
      BY Sizes0, SMT
    <2>2. CASE area = "flash"
      BY <2>1, <2>2
    <2>3. CASE area # "flash"
      BY <2>1, <2>3
    <2>4. QED
      BY <2>2, <2>3
  <1> DEFINE w == Anded(area, from, d)
  <1>2. /\ DOMAIN w = {<<area, i>> : i \in from .. from + k - 1}
        /\ \A l \in DOMAIN w : w[l] = {mem[l] \cap d[(l[2] - from) + 1]}
    BY <1>1 DEF Anded
  <1> HIDE DEF w
  <1>3. \A i \in from .. from + k - 1 : <<area, i>> \in Loc
    <2> SUFFICES ASSUME NEW i \in from .. from + k - 1 PROVE <<area, i>> \in Loc
      OBVIOUS
    <2>1. i \in Nat /\ i < e
      BY <1>1
    <2>2. QED
      BY <1>1, <2>1, Locs DEF Areas
  <1>4. \A l \in Loc : l \in DOMAIN w <=> l[1] = area /\ from <= l[2] /\ l[2] < from + k
    <2> SUFFICES ASSUME NEW l \in Loc
                 PROVE  l \in DOMAIN w <=> l[1] = area /\ from <= l[2] /\ l[2] < from + k
      OBVIOUS
    <2>1. PICK z \in Nat : z = l[2] /\ l = <<l[1], z>>
      BY Locs
    <2>2. z \in from .. from + k - 1 <=> from <= z /\ z < from + k
      OBVIOUS
    <2>3. l \in DOMAIN w <=> l[1] = area /\ z \in from .. from + k - 1
      BY <1>2, <2>1
    <2>4. QED
      BY <2>1, <2>2, <2>3
  <1>5. DOMAIN w \subseteq Loc
    BY <1>2, <1>3
  <1>6. QED
    BY <1>1, <1>2, <1>4, <1>5 DEF w

\* The addresses of a row.
LEMMA RowOnes ==
  ASSUME NEW r \in {"boot", "user"}
  PROVE  /\ DOMAIN Ones(r, 0, RowSize - 1) \subseteq Loc
         /\ \A l \in Loc : l \in DOMAIN Ones(r, 0, RowSize - 1) <=> l[1] = r
         /\ \A l \in DOMAIN Ones(r, 0, RowSize - 1) : Ones(r, 0, RowSize - 1)[l] = {Erased}
         /\ <<r, 0>> \in DOMAIN Ones(r, 0, RowSize - 1)
  <1>1. PICK k \in Nat : k = RowSize /\ k >= 1
    BY Sizes0
  <1> DEFINE w == Ones(r, 0, RowSize - 1)
  <1>2. DOMAIN w = {<<r, i>> : i \in 0 .. k - 1} /\ \A l \in DOMAIN w : w[l] = {Erased}
    BY <1>1 DEF Ones
  <1> HIDE DEF w
  <1>3. \A i \in 0 .. k - 1 : <<r, i>> \in Loc
    <2> SUFFICES ASSUME NEW i \in 0 .. k - 1 PROVE <<r, i>> \in Loc
      OBVIOUS
    <2>1. i \in Nat /\ i < k
      BY <1>1
    <2>2. QED
      BY <1>1, <2>1, Locs
  <1>4. \A l \in Loc : l \in DOMAIN w <=> l[1] = r
    <2> SUFFICES ASSUME NEW l \in Loc PROVE l \in DOMAIN w <=> l[1] = r
      OBVIOUS
    <2>1. PICK z \in Nat : z = l[2] /\ l = <<l[1], z>> /\ (l[1] = r => z < k)
      BY <1>1, Locs
    <2>2. z < k => z \in 0 .. k - 1
      OBVIOUS
    <2>3. l \in DOMAIN w <=> l[1] = r /\ z \in 0 .. k - 1
      BY <1>2, <2>1
    <2>4. QED
      BY <2>1, <2>2, <2>3
  <1>5. 0 \in 0 .. k - 1
    BY <1>1
  <1>6. QED
    BY <1>2, <1>3, <1>4, <1>5 DEF w

\* A call to write pages.
LEMMA UpdateCalled ==
  ASSUME Types, Ended, NEW a \in Nat, NEW d \in Seq(Byte), d # <<>>, InMemory(a, Len(d)),
         Takes(a, Len(d)), page_update_PF(a, d)
  PROVE  /\ ver' = ver /\ mem' = mem /\ Types' /\ Updating' /\ want' # Nothing
         /\ \A l \in Loc : l[1] = "flash" /\ a <= l[2] /\ l[2] < a + Len(d)
                          => l \in DOMAIN want' /\ want'[l] = {mem[l] \cap d[(l[2] - a) + 1]}
  <1>1. PICK p \in Nat \ {0}, o \in Nat, t \in Nat, e \in Nat, k \in Nat :
          /\ p = PageSize /\ o = a % PageSize /\ t = a - o /\ t % PageSize = 0 /\ a = t + o /\ o < p
          /\ e = Pages * PageSize /\ k = Len(d) /\ k >= 1 /\ a + k <= e
    <2>1. PageSize \in Nat \ {0} /\ Pages * PageSize \in Nat /\ Len(d) \in Nat /\ Len(d) >= 1
      BY Sizes0, SMT
    <2>2. PICK p \in Nat \ {0} : p = PageSize
      BY <2>1
    <2>3. PICK q \in Nat, o \in Nat : q = a \div p /\ o = a % p /\ a = p * q + o /\ o < p
      BY DivMod
    <2>4. PICK t \in Nat : t = p * q
      BY SMT
    <2>5. t = a - o /\ a = t + o
      BY <2>3, <2>4
    <2>6. (p * q + 0) % p = 0 /\ p * q + 0 = t
      BY <2>4, DivIs
    <2>7. QED
      BY <2>1, <2>2, <2>3, <2>5, <2>6 DEF InMemory
  <1> DEFINE w == Anded("flash", a, d)
  <1>2. /\ DOMAIN w \subseteq Loc
        /\ \A l \in Loc : l \in DOMAIN w <=> l[1] = "flash" /\ a <= l[2] /\ l[2] < a + k
        /\ \A l \in DOMAIN w : w[l] = {mem[l] \cap d[(l[2] - a) + 1]}
    <2>1. "flash" \in Areas /\ a + Len(d) <= Pages * PageSize
      BY <1>1 DEF Areas
    <2>2. /\ DOMAIN w \subseteq Loc
          /\ \A l \in Loc : l \in DOMAIN w <=> l[1] = "flash" /\ a <= l[2] /\ l[2] < a + Len(d)
          /\ \A l \in DOMAIN w : w[l] = {mem[l] \cap d[(l[2] - a) + 1]}
      BY <2>1, AndedIs
    <2>3. QED
      BY <1>1, <2>2
  <1> HIDE DEF w
  <1>3. Begin(IF ver = 2 THEN <<"wait">> ELSE <<>>, UpdateScript, "flash", t, o, d, 0, w)
    BY <1>1 DEF page_update_PF, w
  <1>4. ver' = ver /\ mem' = mem /\ Types' /\ Spare' /\ word' = 0 /\ want' = w
    <2>1. "flash" \in Areas /\ 0 \in Nat
      BY DEF Areas
    <2>2. QED
      BY <1>2, <1>3, <2>1, Begun
  <1>5. /\ todo' = (IF ver = 2 THEN <<"wait">> ELSE <<>>) \o UpdateScript
        /\ call' = [script |-> UpdateScript, area |-> "flash", top |-> t, off |-> o, data |-> d, size |-> 0]
    BY <1>3 DEF Begin
  <1>6. /\ call'.script = UpdateScript /\ call'.area = "flash" /\ call'.top = t /\ call'.off = o
        /\ call'.data = d
    BY <1>5
  <1>7. UpdateFill(ver, UpdateScript) /\ UpdateScript \in Seq(Names)
    <2>1. UpdateDx \in Seq(Names) /\ UpdateEx \in Seq(Names) /\ Update0 \in Seq(Names)
      BY DEF Names, UpdateDx, UpdateEx, Update0
    <2>2. QED
      BY <2>1 DEF UpdateScript, UpdateFill, Types, NvmType
  <1>8. UpdateBegun(ver, todo)'
    <2>1. CASE ver = 2
      BY <1>4, <1>5, <2>1 DEF UpdateBegun, UpdateScript
    <2>2. CASE ver # 2
      <3>1. todo' = <<>> \o UpdateScript
        BY <1>5, <2>2
      <3>2. todo' = UpdateScript
        BY <1>7, <3>1, Before
      <3>3. QED
        BY <1>4, <1>7, <3>2 DEF UpdateBegun
    <2>3. QED
      BY <2>1, <2>2
  <1>9. Place'
    <2>1. t < e
      BY <1>1
    <2>2. t + PageSize <= Pages * PageSize
      BY <1>1, <2>1, PageFits
    <2>3. QED
      BY <1>1, <1>2, <1>4, <1>6, <2>2 DEF Place
  <1>10. \A l \in DOMAIN w : l[2] \in Nat /\ a <= l[2]
    BY <1>2, Locs
  <1>11. Done(call.top + call.off)' /\ Done(call.top)'
    <2>1. \A l \in DOMAIN w : ~(l[2] < a) /\ ~(l[2] < t)
      <3> SUFFICES ASSUME NEW l \in DOMAIN w PROVE ~(l[2] < a) /\ ~(l[2] < t)
        OBVIOUS
      <3>1. PICK z \in Nat : z = l[2] /\ a <= z
        BY <1>10
      <3>2. t <= a
        BY <1>1
      <3>3. ~(z < a) /\ ~(z < t)
        BY <3>1, <3>2
      <3>4. QED
        BY <3>1, <3>3
    <2>2. call'.top + call'.off = a /\ call'.top = t
      BY <1>1, <1>6
    <2>3. QED
      BY <1>4, <2>1, <2>2 DEF Done
  <1>12. Pending(call.top + call.off)'
    <2>1. call'.top + call'.off = a
      BY <1>1, <1>6
    <2>2. ASSUME NEW l \in Loc, l[1] = "flash", a <= l[2], l[2] < a + Len(d)
          PROVE  l \in DOMAIN w /\ mem[l] \cap d[(l[2] - a) + 1] \in w[l]
      BY <1>1, <1>2, <2>2
    <2>3. \A l \in DOMAIN w : l[2] < a + Len(d)
      BY <1>1, <1>2
    <2>4. a + Len(d) <= Pages * PageSize
      BY <1>1
    <2>5. QED
      BY <1>4, <1>6, <2>1, <2>2, <2>3, <2>4 DEF Pending
  <1>13. ver = 0 => o + Len(d) <= HalfPage
    BY <1>1 DEF Takes, HalfPage
  <1>14. ToFill'
    BY <1>1, <1>4, <1>6, <1>8, <1>11, <1>12, <1>13 DEF ToFill, HalfPage
  <1>15. Updating'
    BY <1>4, <1>6, <1>7, <1>9, <1>11, <1>14 DEF Updating
  <1>16. want' # Nothing
    <2>1. <<"flash", a>> \in Loc
      <3>1. a < e
        BY <1>1
      <3>2. QED
        BY <1>1, <3>1, Locs
    <2>2. a <= a /\ a < a + k
      BY <1>1
    <2>3. <<"flash", a>> \in DOMAIN w
      BY <1>2, <2>1, <2>2
    <2>4. QED
      BY <1>4, <2>3 DEF Nothing
  <1>17. QED
    BY <1>1, <1>2, <1>4, <1>15, <1>16

\* A call that begins with a row: its page is the first.
LEMMA RowPlace ==
  ASSUME Types, Ended, NEW script \in Seq(Names), NEW area \in {"boot", "user"}, NEW d \in Seq(Byte),
         NEW w, DOMAIN w \subseteq Loc, \A l \in DOMAIN w : l[1] = area,
         Begin(<<>>, script, area, 0, 0, d, 0, w)
  PROVE  /\ ver' = ver /\ mem' = mem /\ Types' /\ Spare' /\ Place' /\ word' = 0 /\ want' = w /\ todo' = script
         /\ call'.area = area /\ call'.top = 0 /\ call'.data = d
  <1>1. ver' = ver /\ mem' = mem /\ Types' /\ Spare' /\ word' = 0 /\ want' = w
    <2>1. area \in Areas /\ 0 \in Nat
      BY DEF Areas
    <2>2. QED
      BY <2>1, Begun
  <1>2. /\ todo' = <<>> \o script
        /\ call' = [script |-> script, area |-> area, top |-> 0, off |-> 0, data |-> d, size |-> 0]
    BY DEF Begin
  <1>3. call'.area = area /\ call'.top = 0 /\ call'.data = d /\ todo' = script
    BY <1>2, Before
  <1>4. Place'
    <2>1. 0 % PageSize = 0
      BY Sizes0, DivIs
    <2>2. QED
      BY <1>1, <1>3, <2>1 DEF Place
  <1>5. QED
    BY <1>1, <1>3, <1>4

\* A call to clear a row.
LEMMA RowClear ==
  ASSUME Types, Ended, NEW script \in Seq(Names), NEW area \in {"boot", "user"}, ClearFresh(ver, area, script),
         NEW w, DOMAIN w = DOMAIN Ones(area, 0, RowSize - 1), \A l \in DOMAIN w : Erased \in w[l],
         area = "boot" /\ ver = 3 => w[<<"boot", 0>>] = Byte,
         NEW d \in Seq(Byte), Begin(<<>>, script, area, 0, 0, d, 0, w)
  PROVE  ver' = ver /\ mem' = mem /\ Types' /\ Clearing' /\ want' = w /\ want' # Nothing
  <1>1. /\ DOMAIN w \subseteq Loc /\ <<area, 0>> \in DOMAIN w
        /\ \A l \in Loc : l \in DOMAIN w <=> l[1] = area
    BY RowOnes
  <1>3. /\ ver' = ver /\ mem' = mem /\ Types' /\ Spare' /\ Place' /\ word' = 0 /\ want' = w /\ todo' = script
        /\ call'.area = area /\ call'.top = 0
    BY <1>1, RowPlace
  <1>4. \A l \in DOMAIN w : l[2] \in Nat /\ l[2] < 0 + PageSize
    <2> SUFFICES ASSUME NEW l \in DOMAIN w PROVE l[2] \in Nat /\ l[2] < 0 + PageSize
      OBVIOUS
    <2>1. PICK z \in Nat, r \in Nat, p \in Nat : z = l[2] /\ r = RowSize /\ p = PageSize /\ z < r /\ r <= p
      BY <1>1, Locs, Sizes0
    <2>2. z < 0 + p
      BY <2>1
    <2>3. QED
      BY <2>1, <2>2
  <1>5. Done(call.top)'
    <2>1. \A l \in DOMAIN w : ~(l[2] < 0)
      BY <1>4
    <2>2. QED
      BY <1>3, <2>1 DEF Done
  <1>6. ClearTo(1)'
    <2>1. Extent(1) = PageSize
      BY Extents
    <2>2. QED
      BY <1>1, <1>3, <1>4, <2>1 DEF ClearTo
  <1>7. Clears(1)'
    BY <1>3, <1>5, <1>6 DEF Clears
  <1>8. want' # Nothing
    BY <1>1, <1>3 DEF Nothing
  <1>9. QED
    BY <1>3, <1>7, <1>8 DEF Clearing

\* A call that promises the AND of the row and the data.
AskedAnd(area, d) ==
  \A l \in Loc : l[1] = area /\ 0 <= l[2] /\ l[2] < 0 + Len(d)
                => l \in DOMAIN want' /\ want'[l] = {mem[l] \cap d[(l[2] - 0) + 1]}

\* A call to write one.
LEMMA RowSave ==
  ASSUME Types, Ended, NEW script \in Seq(Names), NEW area \in {"boot", "user"}, NEW wipe \in BOOLEAN,
         RowBegun(ver, wipe, script) \/ (RowStoring(ver, wipe, script) /\ ver = 0),
         NEW d \in Seq(Byte), d # <<>>, Len(d) <= RowSize, NEW w,
         IF wipe THEN /\ DOMAIN w = DOMAIN Ones(area, 0, RowSize - 1)
                      /\ \A l \in DOMAIN w : (IF l[2] < Len(d) THEN d[l[2] + 1] ELSE Erased) \in w[l]
                 ELSE w = Anded(area, 0, d),
         Begin(<<>>, script, area, 0, 0, d, 0, w)
  PROVE  /\ ver' = ver /\ mem' = mem /\ Types' /\ Saving' /\ want' = w /\ want' # Nothing
         /\ ~wipe => AskedAnd(area, d)
  <1>1. PICK k \in Nat : k = Len(d) /\ k >= 1 /\ 0 + Len(d) <= RowSize
    <2>1. PICK k \in Nat, r \in Nat : k = Len(d) /\ r = RowSize /\ k >= 1 /\ k <= r
      BY Sizes0
    <2>2. 0 + k <= r
      BY <2>1
    <2>3. QED
      BY <2>1, <2>2
  <1>2. /\ DOMAIN w \subseteq Loc /\ \A l \in DOMAIN w : l[1] = area
        /\ wipe => \A l \in Loc : l \in DOMAIN w <=> l[1] = area
        /\ ~wipe => /\ \A l \in Loc : l \in DOMAIN w <=> l[1] = area /\ 0 <= l[2] /\ l[2] < 0 + Len(d)
                    /\ \A l \in DOMAIN w : w[l] = {mem[l] \cap d[(l[2] - 0) + 1]}
    <2>1. CASE wipe
      BY <2>1, RowOnes
    <2>2. CASE ~wipe
      <3>1. area \in Areas /\ area # "flash" /\ 0 \in Nat
        BY DEF Areas
      <3>2. /\ DOMAIN w \subseteq Loc
            /\ \A l \in Loc : l \in DOMAIN w <=> l[1] = area /\ 0 <= l[2] /\ l[2] < 0 + Len(d)
            /\ \A l \in DOMAIN w : w[l] = {mem[l] \cap d[(l[2] - 0) + 1]}
        BY <1>1, <2>2, <3>1, AndedIs
      <3>3. QED
        BY <2>2, <3>2
    <2>3. QED
      BY <2>1, <2>2
  <1>3. /\ ver' = ver /\ mem' = mem /\ Types' /\ Spare' /\ Place' /\ word' = 0 /\ want' = w /\ todo' = script
        /\ call'.area = area /\ call'.top = 0 /\ call'.data = d
    BY <1>2, RowPlace
  <1>4. IF wipe THEN Wiped' ELSE Pending(0)'
    <2>1. CASE wipe
      BY <1>2, <1>3, <2>1 DEF Wiped
    <2>2. CASE ~wipe
      <3>1. \A l \in Loc : l[1] = area /\ 0 <= l[2] /\ l[2] < 0 + Len(d)
                           => l \in DOMAIN w /\ mem[l] \cap d[(l[2] - 0) + 1] \in w[l]
        BY <1>2, <2>2
      <3>2. \A l \in DOMAIN w : l[2] < 0 + Len(d)
        BY <1>2, <2>2
      <3>3. QED
        BY <1>3, <2>2, <3>1, <3>2 DEF Pending
    <2>3. QED
      BY <2>1, <2>2
  <1>5. RowToStore(wipe)' \/ StoringRow(wipe)'
    <2>1. CASE RowBegun(ver, wipe, script)
      BY <1>3, <2>1 DEF RowToStore
    <2>2. CASE (RowStoring(ver, wipe, script) /\ ver = 0)
      <3>1. Taken(word)'
        <4>1. \A i \in Places : ~(i < 0)
          BY DEF Places
        <4>2. QED
          BY <1>3, <2>2, <4>1 DEF Taken, Spare
      <3>2. 0 < Len(d)
        BY <1>1
      <3>3. QED
        BY <1>3, <2>2, <3>1, <3>2 DEF StoringRow
    <2>3. QED
      BY <2>1, <2>2
  <1>6. Row(wipe)'
    BY <1>3, <1>4, <1>5 DEF Row
  <1>7. want' # Nothing
    <2>1. <<area, 0>> \in Loc /\ <<area, 0>>[1] = area /\ <<area, 0>>[2] = 0
      <3>1. area \in {"flash", "boot", "user"} /\ <<area, 0>> \in Loc
        <4>1. 0 \in 0 .. RowSize - 1
          BY Sizes0
        <4>2. QED
          BY <4>1 DEF Loc
      <3>2. QED
        BY <3>1
    <2>2. 0 <= 0 /\ 0 < 0 + Len(d)
      BY <1>1
    <2>3. <<area, 0>> \in DOMAIN w
      BY <1>2, <2>1, <2>2
    <2>4. QED
      BY <1>3, <2>3 DEF Nothing
  <1>8. ~wipe => AskedAnd(area, d)
    BY <1>2, <1>3 DEF AskedAnd
  <1>9. QED
    BY <1>3, <1>6, <1>7, <1>8 DEF Saving

\* The scripts of the rows.
LEMMA RowScripts ==
  /\ BootClearDx \in Seq(Names) /\ BootClearEx \in Seq(Names) /\ BootSaveDx \in Seq(Names)
  /\ BootSaveEx \in Seq(Names) /\ UserClear2 \in Seq(Names) /\ UserClear3 \in Seq(Names)
  /\ UserClear0 \in Seq(Names) /\ UserSave2 \in Seq(Names) /\ UserSave3 \in Seq(Names)
  /\ UserSave0 \in Seq(Names)
  <1>1. BootClearDx \in Seq(Names) /\ BootClearEx \in Seq(Names)
    BY DEF Names, BootClearDx, BootClearEx
  <1>2. BootSaveDx \in Seq(Names) /\ BootSaveEx \in Seq(Names)
    BY DEF Names, BootSaveDx, BootSaveEx
  <1>3. UserClear2 \in Seq(Names) /\ UserClear3 \in Seq(Names) /\ UserClear0 \in Seq(Names)
    BY DEF Names, UserClear2, UserClear3, UserClear0
  <1>4. UserSave2 \in Seq(Names) /\ UserSave3 \in Seq(Names) /\ UserSave0 \in Seq(Names)
    BY DEF Names, UserSave2, UserSave3, UserSave0
  <1>5. QED
    BY <1>1, <1>2, <1>3, <1>4

\* bootrow_clear, but for the first byte of version 3.
LEMMA BootCleared ==
  ASSUME Types, Ended, bootrow_clear
  PROVE  /\ ver' = ver /\ mem' = mem /\ Types' /\ Clearing' /\ want' # Nothing
         /\ \A l \in Loc : l[1] = "boot" =>
              /\ l \in DOMAIN want'
              /\ want'[l] = IF ver = 3 /\ l[2] = 0 THEN Byte ELSE {Erased}
  <1> DEFINE D == DOMAIN Ones("boot", 0, RowSize - 1)
             w == [l \in D |-> IF ver = 3 /\ l[2] = 0 THEN Byte ELSE {Erased}]
             script == IF ver = 2 THEN BootClearDx ELSE BootClearEx
  <1>1. ver # 0 /\ Begin(<<>>, script, "boot", 0, 0, <<>>, 0, w)
    BY DEF bootrow_clear
  <1>2. script \in Seq(Names) /\ ClearFresh(ver, "boot", script)
    BY <1>1, RowScripts DEF ClearFresh, Types, NvmType
  <1>3. DOMAIN w = D /\ \A l \in D : w[l] = IF ver = 3 /\ l[2] = 0 THEN Byte ELSE {Erased}
    OBVIOUS
  <1>4. <<"boot", 0>> \in D /\ \A l \in Loc : l[1] = "boot" => l \in D
    BY RowOnes
  <1> HIDE DEF D, w, script
  <1>5. (\A l \in DOMAIN w : Erased \in w[l]) /\ (ver = 3 => w[<<"boot", 0>>] = Byte)
    BY <1>3, <1>4, Bytes DEF Byte, Erased
  <1>6. DOMAIN w = DOMAIN Ones("boot", 0, RowSize - 1)
    BY <1>3 DEF D
  <1>7. ver' = ver /\ mem' = mem /\ Types' /\ Clearing' /\ want' = w /\ want' # Nothing
    <2>1. "boot" \in {"boot", "user"} /\ <<>> \in Seq(Byte)
      OBVIOUS
    <2>2. QED
      BY <1>1, <1>2, <1>5, <1>6, <2>1, RowClear
  <1>8. QED
    BY <1>3, <1>4, <1>7

\* bootrow_save: version 2 writes over what is there, version 3 erases the row with it.
LEMMA BootSaved ==
  ASSUME Types, Ended, NEW d \in Seq(Byte), d # <<>>, Len(d) <= RowSize, bootrow_save(d)
  PROVE  /\ ver' = ver /\ mem' = mem /\ Types' /\ Saving' /\ want' # Nothing
         /\ \A l \in Loc : l[1] = "boot" /\ 0 <= l[2] /\ l[2] < 0 + Len(d) =>
              /\ l \in DOMAIN want'
              /\ want'[l] = IF ver = 2 THEN {mem[l] \cap d[(l[2] - 0) + 1]} ELSE {d[l[2] + 1]}
  <1>1. CASE ver = 2
    <2>1. Begin(<<>>, BootSaveDx, "boot", 0, 0, d, 0, Anded("boot", 0, d))
      BY <1>1 DEF bootrow_save
    <2>2. BootSaveDx \in Seq(Names) /\ RowBegun(ver, FALSE, BootSaveDx)
      BY <1>1, RowScripts DEF RowBegun
    <2> DEFINE w == Anded("boot", 0, d)
               script == BootSaveDx
    <2>3. /\ ver' = ver /\ mem' = mem /\ Types' /\ Saving' /\ want' # Nothing
          /\ \A l \in Loc : l[1] = "boot" /\ 0 <= l[2] /\ l[2] < 0 + Len(d)
                            => l \in DOMAIN want' /\ want'[l] = {mem[l] \cap d[(l[2] - 0) + 1]}
      <3>1. "boot" \in {"boot", "user"} /\ FALSE \in BOOLEAN
        OBVIOUS
      <3>2. w = Anded("boot", 0, d) /\ Begin(<<>>, script, "boot", 0, 0, d, 0, w)
        BY <2>1
      <3>4. script \in Seq(Names) /\ (RowBegun(ver, FALSE, script) \/ (RowStoring(ver, FALSE, script) /\ ver = 0))
        BY <2>2
      <3> HIDE DEF w, script
      <3>3. /\ ver' = ver /\ mem' = mem /\ Types' /\ Saving' /\ want' = w /\ want' # Nothing
            /\ ~FALSE => AskedAnd("boot", d)
        BY <3>1, <3>2, <3>4, RowSave
      <3>5. QED
        BY <3>3 DEF AskedAnd
    <2>4. QED
      BY <1>1, <2>3
  <1>2. CASE ver # 2
    <2> DEFINE D == DOMAIN Ones("boot", 0, RowSize - 1)
               w == [l \in D |-> IF l[2] < Len(d) THEN {d[l[2] + 1]} ELSE {Erased}]
               script == BootSaveEx
    <2>1. ver = 3 /\ Begin(<<>>, script, "boot", 0, 0, d, 0, w)
      BY <1>2 DEF bootrow_save, Types, NvmType
    <2>2. script \in Seq(Names) /\ (RowBegun(ver, TRUE, script) \/ (RowStoring(ver, TRUE, script) /\ ver = 0))
      BY <2>1, RowScripts DEF RowBegun
    <2>3. DOMAIN w = D /\ \A l \in D : w[l] = IF l[2] < Len(d) THEN {d[l[2] + 1]} ELSE {Erased}
      OBVIOUS
    <2>4. \A l \in Loc : l[1] = "boot" => l \in D
      BY RowOnes
    <2> HIDE DEF w, script
    <2>5. \A l \in DOMAIN w : (IF l[2] < Len(d) THEN d[l[2] + 1] ELSE Erased) \in w[l]
      BY <2>3
    <2>6. IF TRUE THEN /\ DOMAIN w = DOMAIN Ones("boot", 0, RowSize - 1)
                       /\ \A l \in DOMAIN w : (IF l[2] < Len(d) THEN d[l[2] + 1] ELSE Erased) \in w[l]
                  ELSE w = Anded("boot", 0, d)
      BY <2>3, <2>5
    <2> HIDE DEF D
    <2>7. ver' = ver /\ mem' = mem /\ Types' /\ Saving' /\ want' = w /\ want' # Nothing
      <3>1. "boot" \in {"boot", "user"} /\ TRUE \in BOOLEAN
        OBVIOUS
      <3>2. QED
        BY <2>1, <2>2, <2>6, <3>1, RowSave
    <2>8. ASSUME NEW l \in Loc, l[1] = "boot", l[2] < 0 + Len(d)
          PROVE  l \in DOMAIN want' /\ want'[l] = {d[l[2] + 1]}
      <3>1. 0 + Len(d) = Len(d)
        OBVIOUS
      <3>2. QED
        BY <2>3, <2>4, <2>7, <2>8, <3>1
    <2>9. QED
      BY <1>2, <2>7, <2>8
  <1>3. QED
    BY <1>1, <1>2

\* userrow_clear: version 0 writes the row with ones.
LEMMA UserCleared ==
  ASSUME Types, Ended, userrow_clear
  PROVE  /\ ver' = ver /\ mem' = mem /\ Types' /\ want' # Nothing
         /\ IF ver = 0 THEN Saving' ELSE Clearing'
         /\ \A l \in Loc : l[1] = "user" => l \in DOMAIN want' /\ want'[l] = {Erased}
  <1> DEFINE w == Ones("user", 0, RowSize - 1)
  <1>1. PICK r \in Nat : r = RowSize /\ r >= 1
    BY Sizes0
  <1>2. /\ AllOnes \in Seq(Byte) /\ Len(AllOnes) = r /\ AllOnes # <<>>
        /\ \A i \in 1 .. r : AllOnes[i] = Erased
    <2>1. Erased \in Byte
      BY DEF Erased, Byte
    <2>2. QED
      BY <1>1, <2>1 DEF AllOnes
  <1>3. /\ DOMAIN w \subseteq Loc /\ \A l \in DOMAIN w : w[l] = {Erased}
        /\ \A l \in Loc : l[1] = "user" => l \in DOMAIN w
    BY RowOnes
  <1>4. CASE ver = 0
    <2>1. Begin(<<>>, UserClear0, "user", 0, 0, AllOnes, 0, w)
      BY <1>4 DEF userrow_clear
    <2>2. UserClear0 \in Seq(Names) /\ RowStoring(ver, TRUE, UserClear0)
      BY <1>4, RowScripts DEF RowStoring, UserClear0
    <2> HIDE DEF w
    <2>3. \A l \in DOMAIN w : (IF l[2] < Len(AllOnes) THEN AllOnes[l[2] + 1] ELSE Erased) \in w[l]
      <3> SUFFICES ASSUME NEW l \in DOMAIN w
                   PROVE  (IF l[2] < Len(AllOnes) THEN AllOnes[l[2] + 1] ELSE Erased) = Erased
        BY <1>3
      <3>1. PICK z \in Nat : z = l[2]
        BY <1>3, Locs
      <3>2. z < r => z + 1 \in 1 .. r
        OBVIOUS
      <3>3. QED
        BY <1>2, <3>1, <3>2
    <2>4. DOMAIN w = DOMAIN Ones("user", 0, RowSize - 1)
      BY DEF w
    <2>5. Len(AllOnes) <= RowSize
      BY <1>1, <1>2
    <2>6. ver' = ver /\ mem' = mem /\ Types' /\ Saving' /\ want' = w /\ want' # Nothing
      BY <1>2, <1>4, <2>1, <2>2, <2>3, <2>4, <2>5, RowSave
    <2>7. QED
      BY <1>3, <1>4, <2>6
  <1>5. CASE ver # 0
    <2> DEFINE script == IF ver = 2 THEN UserClear2 ELSE UserClear3
    <2>1. Begin(<<>>, script, "user", 0, 0, AllOnes, 0, w)
      BY <1>5 DEF userrow_clear, Types, NvmType
    <2>2. script \in Seq(Names) /\ ClearFresh(ver, "user", script)
      BY <1>5, RowScripts DEF ClearFresh, Types, NvmType
    <2>3. DOMAIN w = DOMAIN Ones("user", 0, RowSize - 1)
      OBVIOUS
    <2> HIDE DEF w, script
    <2>4. \A l \in DOMAIN w : Erased \in w[l]
      BY <1>3
    <2>5. ver' = ver /\ mem' = mem /\ Types' /\ Clearing' /\ want' = w /\ want' # Nothing
      <3>1. "user" \in {"boot", "user"} /\ "user" # "boot"
        OBVIOUS
      <3>2. QED
        BY <1>2, <2>1, <2>2, <2>3, <2>4, <3>1, RowClear
    <2>6. QED
      BY <1>3, <1>5, <2>5
  <1>6. QED
    BY <1>4, <1>5

\* userrow_save: version 0 erases the row only in userrow_clear.
LEMMA UserSaved ==
  ASSUME Types, Ended, NEW d \in Seq(Byte), d # <<>>, Len(d) <= RowSize, userrow_save(d)
  PROVE  /\ ver' = ver /\ mem' = mem /\ Types' /\ Saving' /\ want' # Nothing
         /\ \A l \in Loc : l[1] = "user" /\ 0 <= l[2] /\ l[2] < 0 + Len(d) =>
              l \in DOMAIN want' /\ want'[l] = {mem[l] \cap d[(l[2] - 0) + 1]}
  <1> DEFINE w == Anded("user", 0, d)
             script == CASE ver = 2 -> UserSave2 [] ver = 3 -> UserSave3 [] OTHER -> UserSave0
  <1>1. w = Anded("user", 0, d) /\ Begin(<<>>, script, "user", 0, 0, d, 0, w)
    BY DEF userrow_save
  <1>2. script \in Seq(Names)
    BY RowScripts
  <1>3. RowBegun(ver, FALSE, script) \/ (RowStoring(ver, FALSE, script) /\ ver = 0)
    <2>1. CASE ver = 0
      <3>1. script = UserSave0 /\ ver # 2
        BY <2>1
      <3> HIDE DEF script
      <3>2. QED
        BY <2>1, <3>1 DEF RowStoring, UserSave0
    <2>2. CASE ver = 2
      BY <2>2 DEF RowBegun
    <2>3. CASE ver = 3
      BY <2>3 DEF RowBegun
    <2>4. QED
      BY <2>1, <2>2, <2>3 DEF Types, NvmType
  <1> HIDE DEF w, script
  <1>4. "user" \in {"boot", "user"} /\ FALSE \in BOOLEAN
    OBVIOUS
  <1>5. /\ ver' = ver /\ mem' = mem /\ Types' /\ Saving' /\ want' = w /\ want' # Nothing
        /\ ~FALSE => AskedAnd("user", d)
    BY <1>1, <1>2, <1>3, <1>4, RowSave
  <1>6. QED
    BY <1>5 DEF AskedAnd

-----------------------------------------------------------------------------
(* All calls.                                                              *)

\* A step keeps to its call, its promise and its part of the chip.
LEMMA StepsKeep ==
  ASSUME Steps
  PROVE  want' = want /\ ver' = ver /\ todo # <<>>
  <1>1. ASSUME NEW w, Put(w) PROVE ver' = ver
    BY <1>1 DEF Put
  <1>2. ASSUME NEW c, Command(c) PROVE ver' = ver
    BY <1>2 DEF Command
  <1>3. CASE nvm_cmd
    BY <1>2, <1>3 DEF nvm_cmd, Idle
  <1>4. CASE nvm_wait
    BY <1>4 DEF nvm_wait, nvm, Step, Idle
  <1>5. CASE nvm_stc
    BY <1>1, <1>5 DEF nvm_stc, Step, Idle
  <1>6. CASE nvm_write
    <2>1. Step("write") /\ UNCHANGED want
      BY <1>6 DEF nvm_write
    <2>2. ver' = ver
      BY <1>1, <1>6 DEF nvm_write
    <2>3. QED
      BY <2>1, <2>2 DEF Step, Idle
  <1>7. CASE nvm_stz
    BY <1>1, <1>7 DEF nvm_stz, Step, Idle
  <1>8. CASE Fill
    BY <1>8 DEF Fill, nvm, Step, Idle
  <1>9. CASE NextErase
    BY <1>9 DEF NextErase, nvm, Step, Idle
  <1>10. CASE NextUpdate
    BY <1>10 DEF NextUpdate, nvm, Step, Idle
  <1>11. QED
    BY <1>3, <1>4, <1>5, <1>6, <1>7, <1>8, <1>9, <1>10 DEF Steps

\* A call that has something to do has a step to take.
LEMMA JobIdle ==
  ASSUME Job, Idle
  PROVE  Ended
  <1>1. todo = <<>>
    BY DEF Idle
  <1>2. ~Clearing
    BY <1>1, FreshSteps, ArmedSteps, PlacedSteps, RowOverSteps, EraseOverSteps DEF Clearing, Clears, ClearOver
  <1>3. ~Updating
    <2>1. ~ToFill
      BY <1>1, BegunSteps, FillSteps DEF ToFill
    <2>2. ~Filled /\ ~Writing /\ ~Armed /\ ~PageOver
      BY <1>1, FilledSteps, WritingSteps, WrittenSteps, UpdateOverSteps DEF Filled, Writing, Armed, PageOver
    <2>3. QED
      BY <2>1, <2>2 DEF Updating
  <1>4. ~Saving
    <2>1. ASSUME NEW wipe \in BOOLEAN PROVE ~Row(wipe)
      BY <1>1, RowBegunSteps, StoringSteps, StoredSteps, RowOverSteps
         DEF Row, RowToStore, StoringRow, RowIn, RowDone
    <2>2. QED
      BY <2>1 DEF Saving
  <1>5. QED
    BY <1>2, <1>3, <1>4 DEF Job

\* A step of any call: it changes the memory in order, and a clear, or the
\* row of a chip with a page buffer, a page at once.
LEMMA JobStep ==
  ASSUME Types, Job, Steps
  PROVE  /\ Types' /\ InOrder /\ Job'
         /\ Clearing => Sweeps /\ (Ended' \/ Clearing')
         /\ ver # 2 /\ Saving => Sweeps /\ (Ended' \/ Saving')
  <1>1. ~Ended
    BY StepsKeep DEF Ended
  <1>2. Clearing => Types' /\ Sweeps /\ (Ended' \/ Clearing')
    BY ClearStep
  <1>3. Updating => Types' /\ InOrder /\ (Updating' \/ Ended')
    BY UpdateStep
  <1>4. Saving => Types' /\ InOrder /\ (ver # 2 => Sweeps) /\ (Saving' \/ Ended')
    BY RowStep
  <1>5. Clearing => InOrder
    <2>1. ASSUME Clearing PROVE InOrder
      <3>1. Sweeps
        BY <1>2, <2>1
      <3>2. QED
        BY <3>1, SweepOrder
    <2>2. QED
      BY <2>1
  <1>6. QED
    BY <1>1, <1>2, <1>3, <1>4, <1>5 DEF Job

\* What a step changes, the call has promised.
LEMMA OnlyAsked ==
  ASSUME InOrder, NEW l \in Loc, mem'[l] # mem[l]
  PROVE  l \in DOMAIN want /\ mem'[l] \in want[l]
  BY DEF InOrder, Moves

-----------------------------------------------------------------------------
(* The record of the sketches.                                             *)

Fields   == 0 .. RecLen - 1
RecAt(i) == <<where[1], where[2] + i>>

\* Where it lies: in memory, and within a page.
LEMMA RecIs ==
  ASSUME where \in Records
  PROVE  /\ where[1] \in Areas /\ where[2] \in Nat /\ (where[2] % PageSize) + RecLen <= PageSize
         /\ IF where[1] = "flash" THEN where[2] + RecLen <= Pages * PageSize
                                  ELSE where[2] = 0 /\ RecLen <= RowSize
         /\ \A i \in Fields : RecAt(i) \in Loc /\ RecAt(i)[1] = where[1] /\ RecAt(i)[2] = where[2] + i
  <1>1. \/ /\ where[2] \in Nat /\ where = <<"flash", where[2]>>
           /\ (where[2] % PageSize) + RecLen <= PageSize /\ where[2] + RecLen <= Pages * PageSize
        \/ where \in {<<"boot", 0>>, <<"user", 0>>} /\ RecLen <= RowSize
    BY NvmSampleAssumption
  <1>2. PICK p \in Nat, r \in Nat, e \in Nat :
          p = PageSize /\ r = RowSize /\ e = Pages * PageSize /\ r <= p /\ 0 % PageSize = 0
    <2>1. PageSize \in Nat \ {0} /\ RowSize \in Nat /\ Pages * PageSize \in Nat /\ RowSize <= PageSize
      BY Sizes0, SMT
    <2>2. 0 % PageSize = 0
      BY <2>1, SMT
    <2>3. QED
      BY <2>1, <2>2
  <1>3. CASE where[1] = "flash"
    <2>1. PICK a \in Nat : a = where[2] /\ where = <<"flash", a>> /\ a + RecLen <= e
      BY <1>1, <1>2, <1>3
    <2>2. ASSUME NEW i \in Fields PROVE RecAt(i) \in Loc /\ RecAt(i)[1] = where[1] /\ RecAt(i)[2] = where[2] + i
      <3>1. a + i \in Nat /\ a + i < e
        BY <2>1 DEF Fields, RecLen
      <3>2. <<"flash", a + i>> \in Loc
        BY <1>2, <3>1, Locs
      <3>3. QED
        BY <2>1, <3>2 DEF RecAt
    <2>3. QED
      BY <1>1, <1>2, <1>3, <2>1, <2>2 DEF Areas
  <1>4. CASE where[1] # "flash"
    <2>1. where \in {<<"boot", 0>>, <<"user", 0>>} /\ RecLen <= r /\ where[2] = 0
      BY <1>1, <1>2, <1>4
    <2>2. ASSUME NEW i \in Fields PROVE RecAt(i) \in Loc /\ RecAt(i)[1] = where[1] /\ RecAt(i)[2] = where[2] + i
      <3>1. i \in Nat /\ i < r /\ 0 + i = i
        BY <2>1 DEF Fields, RecLen
      <3>2. <<"boot", i>> \in Loc /\ <<"user", i>> \in Loc
        BY <1>2, <3>1, Locs
      <3>3. QED
        BY <2>1, <3>1, <3>2 DEF RecAt
    <2>3. where[1] \in Areas /\ where[2] \in Nat
      BY <2>1 DEF Areas
    <2>4. 0 + RecLen <= p
      BY <1>2, <2>1 DEF RecLen
    <2>5. QED
      BY <1>2, <1>4, <2>1, <2>2, <2>3, <2>4
  <1>5. QED
    BY <1>3, <1>4

\* What fits into a page from a on ends before the next.
LEMMA InPage ==
  ASSUME NEW p \in Nat \ {0}, NEW t \in Nat, t % p = 0, NEW a \in Nat, t <= a, a < t + p,
         NEW c \in Nat, (a % p) + c <= p
  PROVE  a + c <= t + p
  <1>1. a % p = a - t
    BY PageOf
  <1>2. PICK d \in Int : d = a - t
    OBVIOUS
  <1>3. d + c <= p
    BY <1>1, <1>2
  <1>4. QED
    BY <1>2, <1>3

\* The page that holds its first byte holds its magic.
LEMMA RecPage ==
  ASSUME Types, Place, where \in Records, OnPage(RecAt(0))
  PROVE  RecAt(RecLen - 1)[2] < call.top + PageSize
  <1>1. PICK p \in Nat \ {0}, t \in Nat, a \in Nat :
          p = PageSize /\ t = call.top /\ t % p = 0 /\ a = where[2] /\ (a % p) + RecLen <= p
    BY RecIs, Sizes0 DEF Types, CallType, Place
  <1>2. RecAt(0)[2] = a + 0 /\ RecAt(RecLen - 1)[2] = a + 3
    BY <1>1, RecIs DEF Fields, RecLen
  <1>3. t <= a /\ a < t + p
    <2>1. call.top <= RecAt(0)[2] /\ RecAt(0)[2] < call.top + PageSize
      BY DEF OnPage
    <2>2. t <= a + 0 /\ a + 0 < t + p
      BY <1>1, <1>2, <2>1
    <2>3. QED
      BY <2>2
  <1>4. a + RecLen <= t + p
    BY <1>1, <1>3, InPage DEF RecLen
  <1>5. a + 3 < t + p
    BY <1>4 DEF RecLen
  <1>6. QED
    BY <1>1, <1>2, <1>5

\* No magic is left of an erased byte.
LEMMA MagicIs == Magic # Erased /\ Magic \in Byte /\ Date \in Byte
  BY NvmSampleAssumption DEF Magic, Erased, Byte, Date

Kept == mem[RecAt(RecLen - 1)] = Magic => mem[RecAt(0)] \in given

\* A step of the erasing: the magic goes before, or with, the first byte.
LEMMA KeptClearing ==
  ASSUME Types, Place, where \in Records, Kept, Sweeps, given' = given, where' = where,
         RecAt(RecLen - 1) \in DOMAIN want, want[RecAt(RecLen - 1)] = {Erased}
  PROVE  Kept'
  <1> DEFINE f == RecAt(0)
             m == RecAt(RecLen - 1)
  <1>1. SUFFICES ASSUME mem'[m] = Magic PROVE mem'[f] \in given
    BY DEF Kept, RecAt
  <1>2. f \in Loc /\ m \in Loc
    BY RecIs DEF Fields, RecLen
  <1>3. mem'[m] # Erased
    BY <1>1, MagicIs
  <1>4. CASE mem' = mem
    BY <1>1, <1>4 DEF Kept
  <1>5. CASE Moves(call.top + PageSize) /\ \A l \in Loc : mem'[l] # mem[l] => OnPage(l)
    <2>1. ~(m[2] < call.top + PageSize)
      BY <1>3, <1>5 DEF Moves
    <2>2. ~OnPage(f)
      BY <2>1, RecPage
    <2>3. mem'[f] = mem[f]
      BY <1>2, <1>5, <2>2
    <2>4. mem'[m] = mem[m]
      BY <1>2, <1>5, <2>1 DEF Moves
    <2>5. QED
      BY <1>1, <2>3, <2>4 DEF Kept
  <1>6. QED
    BY <1>4, <1>5 DEF Sweeps

\* A step of the writing: the first byte comes before, or with, the magic.
LEMMA KeptSaving ==
  ASSUME Types, where \in Records, Kept, InOrder, given' = given, where' = where,
         RecAt(0) \in DOMAIN want, NEW b \in given, want[RecAt(0)] = {b}
  PROVE  Kept'
  <1> DEFINE f == RecAt(0)
             m == RecAt(RecLen - 1)
  <1>1. SUFFICES ASSUME mem'[m] = Magic PROVE mem'[f] \in given
    BY DEF Kept, RecAt
  <1>2. f \in Loc /\ m \in Loc /\ where[2] \in Nat /\ f[2] = where[2] + 0 /\ m[2] = where[2] + 3
    BY RecIs DEF Fields, RecLen
  <1>3. CASE mem'[f] # mem[f]
    BY <1>2, <1>3, OnlyAsked
  <1>4. CASE mem'[f] = mem[f] /\ mem'[m] = mem[m]
    BY <1>1, <1>4 DEF Kept
  <1>5. CASE mem'[f] = mem[f] /\ mem'[m] # mem[m]
    <2>1. PICK n \in Nat : Moves(n)
      BY <1>5 DEF InOrder
    <2>2. m[2] < n
      BY <1>2, <1>5, <2>1 DEF Moves
    <2>3. f[2] < n
      BY <1>2, <2>2
    <2>4. QED
      BY <2>1, <2>3 DEF Moves
  <1>6. QED
    BY <1>3, <1>4, <1>5

-----------------------------------------------------------------------------
(* The programs: what holds between any two of their steps.                *)

Resting  == {"off", "load", "fix", "clear", "save", "verify", "enter", "api"}
InCall   == {"clearing", "saving", "calling"}
\* The row whose erasing leaves any first byte.
Stubborn == ver = 3 /\ where[1] = "boot"
NewRec   == rec = <<rec[1], Date, Date, Magic>> /\ rec[1] \in given /\ rec[1] \in Byte

Loaded  == pc = "fix" => rec = Stored
Made    == pc \in {"clear", "clearing", "save", "saving", "verify"} => NewRec
Wiping  == pc = "clearing" =>
             /\ Ended \/ Clearing \/ (ver = 0 /\ Saving)
             /\ \A i \in Fields : /\ RecAt(i) \in DOMAIN want
                                  /\ want[RecAt(i)] = {Erased} \/ (i = 0 /\ Stubborn)
Blank   == pc = "save" => \A i \in Fields : mem[RecAt(i)] = Erased \/ (i = 0 /\ Stubborn)
Putting == pc = "saving" =>
             \A i \in Fields : RecAt(i) \in DOMAIN want /\ want[RecAt(i)] = {rec[i + 1]}
Saved   == pc = "verify" => \A i \in Fields : mem[RecAt(i)] = rec[i + 1]

Sample == Kept /\ Loaded /\ Made /\ Wiping /\ Blank /\ Putting /\ Saved

\* Where a record may be on this chip.
Room == /\ where \in Records /\ (ver = 0 => where[1] # "boot")
        /\ where[1] = "flash" => Takes(where[2], RecLen)

Calls == /\ pc \in Resting \union InCall
         /\ IF pc \in Resting THEN Ended /\ want = Nothing ELSE want # Nothing

Sketch == IF prog = "sample" THEN pc \notin {"api", "calling"} /\ Sample
                             ELSE pc \in {"off", "api", "calling"}

\* The inductive invariant.
NvmInv == Types /\ Job /\ Calls /\ Room /\ matched = TRUE /\ Sketch

\* The record about to be written is a sequence of bytes with its magic.
LEMMA RecSeq ==
  ASSUME NewRec
  PROVE  /\ rec \in Seq(Byte) /\ Len(rec) = RecLen /\ rec # <<>>
         /\ \A i \in Fields : rec[i + 1] \in Byte
  <1>1. rec[1] \in Byte /\ Date \in Byte /\ Magic \in Byte /\ rec = <<rec[1], Date, Date, Magic>>
    BY MagicIs DEF NewRec
  <1>2. PICK b \in Byte : b = rec[1]
    BY <1>1
  <1>3. rec = <<b, Date, Date, Magic>>
    BY <1>1, <1>2
  <1>4. <<b, Date, Date, Magic>> \in Seq(Byte) /\ Len(<<b, Date, Date, Magic>>) = 4
    BY <1>1
  <1>5. \A i \in 1 .. 4 : rec[i] \in Byte
    BY <1>3, <1>4
  <1>6. \A i \in Fields : i + 1 \in 1 .. 4
    BY DEF Fields, RecLen
  <1>7. rec # <<>> /\ rec \in Seq(Byte) /\ Len(rec) = RecLen
    BY <1>3, <1>4 DEF RecLen
  <1>8. QED
    BY <1>5, <1>6, <1>7

\* Between calls nothing of the chip changes but by a call.
LEMMA EndedSame ==
  ASSUME Types, Ended, UNCHANGED <<nvm, running, want>>
  PROVE  Types' /\ Ended' /\ Job'
  <1>1. /\ ver' = ver /\ mem' = mem /\ pbuf' = pbuf /\ at' = at /\ todo' = todo /\ call' = call
        /\ buf' = buf /\ word' = word /\ want' = want
    BY DEF nvm, running
  <1>2. Types'
    BY <1>1 DEF Types, NvmType, CallType
  <1>3. Ended'
    BY <1>1 DEF Ended, Spare
  <1>4. QED
    BY <1>2, <1>3 DEF Job

\* Nothing of this is about the busy bits, or about how many calls were made.
LEMMA SameKeeps ==
  ASSUME NvmInv, UNCHANGED <<ver, mem, pbuf, at, cmd, running, want, prog, where, pc, rec, given, matched>>
  PROVE  NvmInv'
  <1>1. /\ ver' = ver /\ mem' = mem /\ pbuf' = pbuf /\ at' = at /\ cmd' = cmd
        /\ todo' = todo /\ call' = call /\ buf' = buf /\ word' = word /\ want' = want
    BY DEF running
  <1>2. /\ prog' = prog /\ where' = where /\ pc' = pc /\ rec' = rec /\ given' = given /\ matched' = matched
    OBVIOUS
  <1>3. Types'
    BY <1>1 DEF NvmInv, Types, NvmType, CallType
  <1>4. Ended => Ended'
    BY <1>1 DEF Ended, Spare
  <1>5. Clearing => Clearing'
    <2>1. ASSUME NEW n \in Nat \ {0}, Clears(n) PROVE Clears(n)'
      <3>1. Place' /\ Spare' /\ word' = 0 /\ Done(call.top)' /\ ClearTo(n)'
        BY <1>1, <2>1 DEF Clears, Place, Spare, Done, ClearTo
      <3>2. QED
        BY <1>1, <2>1, <3>1 DEF Clears, OnPage, Done
    <2>2. QED
      BY <2>1 DEF Clearing
  <1>6. Updating => Updating'
    <2>1. SUFFICES ASSUME Updating PROVE Updating'
      OBVIOUS
    <2>2. Place' /\ call'.area = "flash" /\ Done(call.top)' /\ UpdateFill(ver, call.script)'
      BY <1>1, <2>1 DEF Updating, Place, Done
    <2>3. (Rest => Rest') /\ (Fit => Fit') /\ (Spare => Spare') /\ (Half => Half')
      BY <1>1 DEF Rest, Pending, Fit, Spare, Half, OnPage
    <2>4. ToFill => ToFill'
      BY <1>1 DEF ToFill, Spare, Done, Pending
    <2>5. Filled => Filled'
      BY <1>1, <2>3 DEF Filled
    <2>6. Writing => Writing'
      BY <1>1, <2>3 DEF Writing, Done, Copied, OnPage, Width
    <2>7. Armed => Armed'
      BY <1>1, <2>3 DEF Armed, OnPage
    <2>8. PageOver => PageOver'
      BY <1>1, <2>3 DEF PageOver, Done
    <2>9. QED
      BY <2>1, <2>2, <2>4, <2>5, <2>6, <2>7, <2>8 DEF Updating
  <1>7. Saving => Saving'
    <2>1. ASSUME NEW wipe \in BOOLEAN, Row(wipe) PROVE Row(wipe)'
      <3>1. /\ Place' /\ call'.area # "flash" /\ call'.data # <<>> /\ Len(call'.data) <= RowSize
            /\ IF wipe THEN Wiped' ELSE Pending(0)'
        BY <1>1, <2>1 DEF Row, Place, Wiped, Pending
      <3>2. RowToStore(wipe) => RowToStore(wipe)'
        BY <1>1 DEF RowToStore, Spare
      <3>3. StoringRow(wipe) => StoringRow(wipe)'
        BY <1>1 DEF StoringRow, Done, Taken
      <3>4. RowIn(wipe) => RowIn(wipe)'
        BY <1>1 DEF RowIn, OnPage, Taken
      <3>5. RowDone => RowDone'
        BY <1>1 DEF RowDone, Spare
      <3>6. QED
        BY <2>1, <3>1, <3>2, <3>3, <3>4, <3>5 DEF Row
    <2>2. QED
      BY <2>1 DEF Saving
  <1>8. Job'
    BY <1>4, <1>5, <1>6, <1>7 DEF NvmInv, Job
  <1>9. Calls' /\ Room'
    BY <1>1, <1>2, <1>4 DEF NvmInv, Calls, Room, Takes
  <1>10. Sample => Sample'
    <2>1. (Kept => Kept') /\ (Loaded => Loaded') /\ (Made => Made')
      BY <1>1, <1>2 DEF Kept, RecAt, Loaded, Stored, Made, NewRec
    <2>2. (Blank => Blank') /\ (Putting => Putting') /\ (Saved => Saved')
      BY <1>1, <1>2 DEF Blank, Putting, Saved, RecAt, Stubborn
    <2>3. Wiping => Wiping'
      BY <1>1, <1>2, <1>4, <1>5, <1>7 DEF Wiping, RecAt, Stubborn
    <2>4. QED
      BY <2>1, <2>2, <2>3 DEF Sample
  <1>11. Sketch'
    BY <1>2, <1>10 DEF NvmInv, Sketch
  <1>12. QED
    BY <1>2, <1>3, <1>8, <1>9, <1>11 DEF NvmInv

\* A step of a call.
LEMMA StepKeeps ==
  ASSUME NvmInv, Steps, UNCHANGED app
  PROVE  NvmInv' /\ pc \in InCall /\ InOrder
  <1>1. /\ prog' = prog /\ where' = where /\ pc' = pc /\ rec' = rec /\ given' = given /\ matched' = matched
    BY DEF app
  <1>2. want' = want /\ ver' = ver /\ todo # <<>>
    BY StepsKeep
  <1>3. /\ Types' /\ InOrder /\ Job'
        /\ Clearing => Sweeps /\ (Ended' \/ Clearing')
        /\ ver # 2 /\ Saving => Sweeps /\ (Ended' \/ Saving')
    BY JobStep DEF NvmInv
  <1>4. pc \in InCall /\ want # Nothing /\ ~Ended
    BY <1>2 DEF NvmInv, Calls, Ended
  <1>5. Calls' /\ Room'
    BY <1>1, <1>2, <1>4 DEF NvmInv, Calls, Room, Takes, Resting, InCall
  <1>6. ASSUME prog = "sample" PROVE Sample'
    <2>1. Sample /\ where \in Records
      BY <1>6 DEF NvmInv, Sketch, Room
    <2>2. pc \in {"clearing", "saving"}
      BY <1>4, <1>6 DEF NvmInv, Sketch, InCall
    <2>3. Loaded' /\ Blank' /\ Saved'
      BY <1>1, <2>2 DEF Loaded, Blank, Saved
    <2>4. Made'
      BY <1>1, <2>1 DEF Sample, Made, NewRec
    <2>5. Putting'
      BY <1>1, <1>2, <2>1 DEF Sample, Putting, RecAt
    <2>6. Wiping'
      BY <1>1, <1>2, <1>3, <1>4, <2>1 DEF Sample, Wiping, RecAt, Stubborn
    <2>7. CASE pc = "clearing"
      <3>1. RecAt(RecLen - 1) \in DOMAIN want /\ want[RecAt(RecLen - 1)] = {Erased}
        BY <2>1, <2>7 DEF Sample, Wiping, Fields, RecLen
      <3>2. Sweeps /\ Place
        <4>1. Clearing \/ (ver = 0 /\ Saving)
          BY <1>4, <2>1, <2>7 DEF Sample, Wiping
        <4>2. Clearing => Place
          BY DEF Clearing, Clears
        <4>3. Saving => Place
          BY DEF Saving, Row
        <4>4. QED
          BY <1>3, <4>1, <4>2, <4>3
      <3>3. Kept'
        BY <1>1, <2>1, <3>1, <3>2, KeptClearing DEF NvmInv, Sample
      <3>4. QED
        BY <2>3, <2>4, <2>5, <2>6, <3>3 DEF Sample
    <2>8. CASE pc = "saving"
      <3>1. RecAt(0) \in DOMAIN want /\ want[RecAt(0)] = {rec[0 + 1]} /\ rec[0 + 1] \in given
        BY <2>1, <2>8 DEF Sample, Putting, Made, NewRec, Fields, RecLen
      <3>2. PICK b \in given : want[RecAt(0)] = {b}
        BY <3>1
      <3>3. Kept'
        BY <1>1, <1>3, <2>1, <3>1, <3>2, KeptSaving DEF NvmInv, Sample
      <3>4. QED
        BY <2>3, <2>4, <2>5, <2>6, <3>3 DEF Sample
    <2>9. QED
      BY <2>2, <2>7, <2>8
  <1>7. Sketch'
    BY <1>1, <1>6 DEF NvmInv, Sketch
  <1>8. QED
    BY <1>1, <1>3, <1>4, <1>5, <1>7 DEF NvmInv

\* The program starts.
LEMMA StartKeeps ==
  ASSUME NvmInv, Start
  PROVE  NvmInv'
  <1>1. /\ pc = "off" /\ pc' = IF prog = "sample" THEN "load" ELSE "api"
        /\ UNCHANGED <<nvm, running, want, prog, where, rec, given, matched>>
    BY DEF Start
  <1>2. Ended /\ want = Nothing /\ Types /\ Room
    BY <1>1 DEF NvmInv, Calls, Resting
  <1>3. Types' /\ Ended' /\ Job'
    BY <1>1, <1>2, EndedSame
  <1>4. ver' = ver /\ mem' = mem
    BY <1>1 DEF nvm
  <1>5. Calls' /\ Room'
    BY <1>1, <1>2, <1>3, <1>4 DEF Calls, Resting, Room, Takes
  <1>6. Sketch'
    BY <1>1, <1>4 DEF NvmInv, Sketch, Sample, Kept, RecAt, Loaded, Made, Wiping, Blank, Putting, Saved
  <1>7. QED
    BY <1>1, <1>3, <1>5, <1>6 DEF NvmInv

\* A reset leaves the memory as it is, and no call.
LEMMA ResetKeeps ==
  ASSUME NvmInv, Reset
  PROVE  NvmInv'
  <1>1. /\ pc' = "off" /\ todo' = <<>> /\ call' = NoCall /\ buf' = NoBuffer /\ word' = 0 /\ want' = Nothing
        /\ pbuf' = NoBuffer /\ ver' = ver /\ mem' = mem /\ at' = at
        /\ UNCHANGED <<prog, where, given, matched>>
    BY DEF Reset, EndCall, ResetNvm
  <1>2. \A i \in Places : NoBuffer[i] = Erased
    BY DEF NoBuffer, Places
  <1>3. NoBuffer \in [Places -> Byte] /\ DOMAIN Nothing \subseteq Loc
    BY DEF NoBuffer, Places, Byte, Erased, Nothing
  <1>4. CallType'
    <2>1. call'.script = <<>> /\ call'.area = "flash" /\ call'.top = 0 /\ call'.off = 0 /\ call'.data = <<>>
          /\ call'.size = 0
      BY <1>1 DEF NoCall
    <2>2. call' = [script |-> call'.script, area |-> call'.area, top |-> call'.top, off |-> call'.off,
                   data |-> call'.data, size |-> call'.size]
      BY <1>1 DEF NoCall
    <2>3. <<>> \in Seq(Byte) /\ "flash" \in Areas
      BY DEF Areas
    <2>4. QED
      BY <2>1, <2>2, <2>3 DEF CallType
  <1>5. Types'
    BY <1>1, <1>3, <1>4 DEF NvmInv, Types, NvmType
  <1>6. Ended'
    BY <1>1, <1>2 DEF Ended, Spare, Nothing
  <1>7. Calls' /\ Room' /\ Job'
    BY <1>1, <1>6 DEF NvmInv, Calls, Resting, Room, Takes, Job
  <1>8. Sketch'
    BY <1>1 DEF NvmInv, Sketch, Sample, Kept, RecAt, Loaded, Made, Wiping, Blank, Putting, Saved
  <1>9. QED
    BY <1>1, <1>5, <1>7, <1>8 DEF NvmInv

\* The record is read.
LEMMA LoadKeeps ==
  ASSUME NvmInv, Load
  PROVE  NvmInv'
  <1>1. /\ pc = "load" /\ pc' = "fix" /\ rec' = Stored
        /\ UNCHANGED <<nvm, running, want, prog, where, given, matched>>
    BY DEF Load
  <1>2. Ended /\ want = Nothing /\ Types /\ Room
    BY <1>1 DEF NvmInv, Calls, Resting
  <1>3. Types' /\ Ended' /\ Job'
    BY <1>1, <1>2, EndedSame
  <1>4. ver' = ver /\ mem' = mem
    BY <1>1 DEF nvm
  <1>5. Calls' /\ Room'
    BY <1>1, <1>2, <1>3, <1>4 DEF Calls, Resting, Room, Takes
  <1>6. Loaded'
    BY <1>1, <1>4 DEF Loaded, Stored
  <1>7. Sketch'
    BY <1>1, <1>4, <1>6 DEF NvmInv, Sketch, Sample, Kept, RecAt, Made, Wiping, Blank, Putting, Saved
  <1>8. QED
    BY <1>1, <1>3, <1>5, <1>7 DEF NvmInv

\* Its count is brought up.
LEMMA FixKeeps ==
  ASSUME NvmInv, Fix
  PROVE  NvmInv'
  <1>1. PICK n :
          /\ pc = "fix" /\ pc' = "clear"
          /\ rec' = <<Number(n), Date, Date, Magic>>
          /\ given' = {Number(n)} \union (IF Valid THEN {rec[1]} ELSE {})
          /\ UNCHANGED <<nvm, running, want, prog, where, matched>>
    BY DEF Fix
  <1>2. Ended /\ want = Nothing /\ Types /\ Room
    BY <1>1 DEF NvmInv, Calls, Resting
  <1>3. Types' /\ Ended' /\ Job'
    BY <1>1, <1>2, EndedSame
  <1>4. ver' = ver /\ mem' = mem
    BY <1>1 DEF nvm
  <1>5. Calls' /\ Room'
    BY <1>1, <1>2, <1>3, <1>4 DEF Calls, Resting, Room, Takes
  <1>6. ASSUME prog = "sample" PROVE Kept' /\ Made'
    <2>1. rec = Stored
      BY <1>1, <1>6 DEF NvmInv, Sketch, Sample, Loaded
    <2>2. rec[1] = mem[RecAt(0)] /\ rec[RecLen] = mem[RecAt(RecLen - 1)]
      <3>1. rec = [i \in 1 .. RecLen |-> mem[RecAt(i - 1)]]
        BY <2>1 DEF Stored, RecAt
      <3>2. 1 - 1 = 0 /\ 1 \in 1 .. RecLen /\ RecLen \in 1 .. RecLen
        BY DEF RecLen
      <3>3. QED
        BY <3>1, <3>2
    <2>3. Kept'
      BY <1>1, <1>4, <2>2 DEF Kept, RecAt, Valid
    <2>4. Number(n) \in Byte
      BY DEF Number, Byte
    <2>5. Made'
      BY <1>1, <2>4 DEF Made, NewRec
    <2>6. QED
      BY <2>3, <2>5
  <1>7. Sketch'
    BY <1>1, <1>6 DEF NvmInv, Sketch, Sample, Loaded, Wiping, Blank, Putting, Saved
  <1>8. QED
    BY <1>1, <1>3, <1>5, <1>7 DEF NvmInv

\* A call begins: what that says of a program that was between calls.
LEMMA CallKeeps ==
  ASSUME NvmInv, Types', Job', want' # Nothing, ver' = ver, pc' \in InCall,
         UNCHANGED <<prog, where, matched>>
  PROVE  Types' /\ Job' /\ Calls' /\ Room' /\ matched' = TRUE
  BY DEF NvmInv, Calls, Room, Takes, Resting, InCall

\* The record is erased.
LEMMA ClearKeeps ==
  ASSUME NvmInv, Clear
  PROVE  NvmInv'
  <1>1. /\ pc = "clear" /\ pc' = "clearing" /\ UNCHANGED <<prog, where, rec, given, matched>>
        /\ CASE where[1] = "flash" -> page_erase_PF(where[2], RecLen)
             [] where[1] = "boot"  -> bootrow_clear
             [] OTHER              -> userrow_clear
    BY DEF Clear
  <1>2. prog = "sample" /\ Types /\ Ended /\ Sample /\ where \in Records
    BY <1>1 DEF NvmInv, Calls, Resting, Sketch, Room
  <1>3. /\ ver' = ver /\ mem' = mem /\ Types' /\ Job' /\ want' # Nothing
        /\ Clearing' \/ (ver = 0 /\ Saving')
        /\ \A i \in Fields : /\ RecAt(i) \in DOMAIN want'
                             /\ want'[RecAt(i)] = {Erased} \/ (i = 0 /\ Stubborn)
    <2>1. CASE where[1] = "flash"
      <3>1. PICK a \in Nat, p \in Nat \ {0}, o \in Nat :
              /\ a = where[2] /\ p = PageSize /\ o = a % PageSize /\ o <= a /\ o + RecLen <= p
              /\ a + RecLen <= Pages * PageSize
        <4>1. where[2] \in Nat /\ where[2] + RecLen <= Pages * PageSize /\ PageSize \in Nat \ {0}
              /\ (where[2] % PageSize) + RecLen <= PageSize
          BY <1>2, <2>1, RecIs, Sizes0
        <4>2. PICK a \in Nat, p \in Nat \ {0} : a = where[2] /\ p = PageSize
          BY <4>1
        <4>3. PICK o \in Nat, q \in Nat : o = a % p /\ q = a \div p /\ a = p * q + o
          BY DivMod
        <4>4. PICK m \in Nat : m = p * q
          BY SMT
        <4>5. o <= a
          BY <4>3, <4>4
        <4>6. QED
          BY <4>1, <4>2, <4>3, <4>5
      <3>2. InMemory(a - (a % PageSize), RecLen)
        <4>1. (a - o) + RecLen <= a + RecLen
          BY DEF RecLen
        <4>2. PICK e \in Nat : e = Pages * PageSize
          BY Sizes0, SMT
        <4>3. (a - o) + RecLen <= e
          BY <3>1, <4>1, <4>2 DEF RecLen
        <4>4. QED
          BY <3>1, <4>2, <4>3 DEF InMemory
      <3>3. page_erase_PF(a, RecLen) /\ RecLen \in Nat \ {0}
        BY <1>1, <2>1, <3>1 DEF RecLen
      <3>4. /\ ver' = ver /\ mem' = mem /\ Types' /\ Clearing' /\ want' # Nothing
            /\ \A l \in Loc : l[1] = "flash" /\ a <= l[2] /\ l[2] < a - (a % PageSize) + PageSize
                              => l \in DOMAIN want'
            /\ \A l \in DOMAIN want' : want'[l] = {Erased}
        BY <1>2, <3>2, <3>3, EraseCalled
      <3>5. ASSUME NEW i \in Fields PROVE RecAt(i) \in DOMAIN want'
        <4>1. RecAt(i) \in Loc /\ RecAt(i)[1] = "flash" /\ RecAt(i)[2] = a + i
          BY <1>2, <2>1, <3>1, RecIs
        <4>2. a <= a + i /\ a + i < (a - o) + p
          BY <3>1 DEF Fields, RecLen
        <4>3. a <= RecAt(i)[2] /\ RecAt(i)[2] < a - (a % PageSize) + PageSize
          BY <3>1, <4>1, <4>2
        <4>4. QED
          BY <3>4, <4>1, <4>3
      <3>6. QED
        BY <3>4, <3>5 DEF Job
    <2>2. CASE where[1] = "boot"
      <3>1. bootrow_clear
        BY <1>1, <2>2
      <3>2. /\ ver' = ver /\ mem' = mem /\ Types' /\ Clearing' /\ want' # Nothing
            /\ \A l \in Loc : l[1] = "boot" =>
                 /\ l \in DOMAIN want'
                 /\ want'[l] = IF ver = 3 /\ l[2] = 0 THEN Byte ELSE {Erased}
        BY <1>2, <3>1, BootCleared
      <3>3. ASSUME NEW i \in Fields
            PROVE  RecAt(i) \in DOMAIN want' /\ (want'[RecAt(i)] = {Erased} \/ (i = 0 /\ Stubborn))
        <4>1. RecAt(i) \in Loc /\ RecAt(i)[1] = "boot" /\ RecAt(i)[2] = i
          <5>1. RecAt(i) \in Loc /\ RecAt(i)[1] = "boot" /\ RecAt(i)[2] = where[2] + i /\ where[2] = 0
            BY <1>2, <2>2, RecIs
          <5>2. 0 + i = i
            BY DEF Fields
          <5>3. QED
            BY <5>1, <5>2
        <4>2. QED
          BY <2>2, <3>2, <4>1 DEF Stubborn
      <3>4. QED
        BY <3>2, <3>3 DEF Job
    <2>3. CASE where[1] # "flash" /\ where[1] # "boot"
      <3>1. userrow_clear
        BY <1>1, <2>3
      <3>2. /\ ver' = ver /\ mem' = mem /\ Types' /\ want' # Nothing
            /\ IF ver = 0 THEN Saving' ELSE Clearing'
            /\ \A l \in Loc : l[1] = "user" => l \in DOMAIN want' /\ want'[l] = {Erased}
        BY <1>2, <3>1, UserCleared
      <3>3. \A i \in Fields : RecAt(i) \in Loc /\ RecAt(i)[1] = "user"
        BY <1>2, <2>3, RecIs DEF Areas
      <3>4. QED
        BY <3>2, <3>3 DEF Job
    <2>4. QED
      BY <2>1, <2>2, <2>3
  <1>4. Types' /\ Job' /\ Calls' /\ Room' /\ matched' = TRUE
    BY <1>1, <1>3, CallKeeps DEF InCall
  <1>5. Wiping'
    <2>1. ver' = 0 <=> ver = 0
      BY <1>3
    <2>2. QED
      BY <1>1, <1>3, <2>1 DEF Wiping, RecAt, Stubborn
  <1>6. Kept' /\ Made'
    BY <1>1, <1>2, <1>3 DEF Sample, Kept, RecAt, Made, NewRec
  <1>7. Sketch'
    BY <1>1, <1>2, <1>5, <1>6 DEF Sketch, Sample, Loaded, Blank, Putting, Saved
  <1>8. QED
    BY <1>4, <1>7 DEF NvmInv

\* It is written, to bytes that are erased.
LEMMA SaveKeeps ==
  ASSUME NvmInv, Save
  PROVE  NvmInv'
  <1>1. /\ pc = "save" /\ pc' = "saving" /\ UNCHANGED <<prog, where, rec, given, matched>>
        /\ CASE where[1] = "flash" -> page_update_PF(where[2], rec)
             [] where[1] = "boot"  -> bootrow_save(rec)
             [] OTHER              -> userrow_save(rec)
    BY DEF Save
  <1>2. prog = "sample" /\ Types /\ Ended /\ Sample /\ Room /\ where \in Records /\ NewRec
    BY <1>1 DEF NvmInv, Calls, Resting, Sketch, Room, Sample, Made
  <1>3. rec \in Seq(Byte) /\ Len(rec) = RecLen /\ rec # <<>> /\ \A i \in Fields : rec[i + 1] \in Byte
    BY <1>2, RecSeq
  <1>4. \A i \in Fields : mem[RecAt(i)] = Erased \/ (i = 0 /\ Stubborn)
    BY <1>1, <1>2 DEF Sample, Blank
  <1>5. \A i \in Fields : mem[RecAt(i)] = Erased => mem[RecAt(i)] \cap rec[i + 1] = rec[i + 1]
    BY <1>3, Bytes
  <1>6. \A i \in Fields : RecAt(i) \in Loc /\ RecAt(i)[1] = where[1] /\ RecAt(i)[2] = where[2] + i
    BY <1>2, RecIs
  <1>7. /\ ver' = ver /\ mem' = mem /\ Types' /\ Job' /\ want' # Nothing
        /\ \A i \in Fields : RecAt(i) \in DOMAIN want' /\ want'[RecAt(i)] = {rec[i + 1]}
    <2>1. CASE where[1] = "flash"
      <3>1. PICK a \in Nat : a = where[2] /\ a + RecLen <= Pages * PageSize
        BY <1>2, <2>1, RecIs
      <3>2. InMemory(a, Len(rec)) /\ Takes(a, Len(rec)) /\ page_update_PF(a, rec)
        BY <1>1, <1>2, <1>3, <2>1, <3>1 DEF InMemory, Room
      <3>3. /\ ver' = ver /\ mem' = mem /\ Types' /\ Updating' /\ want' # Nothing
            /\ \A l \in Loc : l[1] = "flash" /\ a <= l[2] /\ l[2] < a + Len(rec)
                              => l \in DOMAIN want' /\ want'[l] = {mem[l] \cap rec[(l[2] - a) + 1]}
        BY <1>2, <1>3, <3>2, UpdateCalled
      <3>4. ASSUME NEW i \in Fields PROVE RecAt(i) \in DOMAIN want' /\ want'[RecAt(i)] = {rec[i + 1]}
        <4>1. RecAt(i) \in Loc /\ RecAt(i)[1] = "flash" /\ RecAt(i)[2] = a + i
          BY <1>6, <2>1, <3>1
        <4>2. a <= a + i /\ a + i < a + RecLen /\ (a + i) - a = i
          BY DEF Fields, RecLen
        <4>3. RecAt(i) \in DOMAIN want' /\ want'[RecAt(i)] = {mem[RecAt(i)] \cap rec[i + 1]}
          BY <1>3, <3>3, <4>1, <4>2
        <4>4. ~Stubborn
          BY <2>1 DEF Stubborn
        <4>5. QED
          BY <1>4, <1>5, <4>3, <4>4
      <3>5. QED
        BY <3>3, <3>4 DEF Job
    <2>2. CASE where[1] # "flash"
      <3>1. where[2] = 0 /\ RecLen <= RowSize /\ where[1] \in Areas
        BY <1>2, <2>2, RecIs
      <3>2. \A i \in Fields : /\ RecAt(i)[2] = i /\ 0 <= RecAt(i)[2] /\ RecAt(i)[2] < 0 + Len(rec)
                              /\ (RecAt(i)[2] - 0) + 1 = i + 1
        <4> SUFFICES ASSUME NEW i \in Fields
                     PROVE  /\ RecAt(i)[2] = i /\ 0 <= RecAt(i)[2] /\ RecAt(i)[2] < 0 + Len(rec)
                            /\ (RecAt(i)[2] - 0) + 1 = i + 1
          OBVIOUS
        <4>1. 0 + i = i /\ 0 <= i /\ i < 0 + RecLen /\ (i - 0) + 1 = i + 1
          BY DEF Fields, RecLen
        <4>2. RecAt(i)[2] = i
          BY <1>6, <3>1, <4>1
        <4>3. QED
          BY <1>3, <4>1, <4>2
      <3>3. CASE where[1] = "boot"
        <4>1. bootrow_save(rec) /\ Len(rec) <= RowSize
          BY <1>1, <1>3, <3>1, <3>3
        <4>2. /\ ver' = ver /\ mem' = mem /\ Types' /\ Saving' /\ want' # Nothing
              /\ \A l \in Loc : l[1] = "boot" /\ 0 <= l[2] /\ l[2] < 0 + Len(rec) =>
                   /\ l \in DOMAIN want'
                   /\ want'[l] = IF ver = 2 THEN {mem[l] \cap rec[(l[2] - 0) + 1]} ELSE {rec[l[2] + 1]}
          BY <1>2, <1>3, <4>1, BootSaved
        <4>3. \A i \in Fields : /\ RecAt(i) \in DOMAIN want'
                                /\ want'[RecAt(i)] = IF ver = 2 THEN {mem[RecAt(i)] \cap rec[i + 1]}
                                                                ELSE {rec[i + 1]}
          <5> SUFFICES ASSUME NEW i \in Fields
                       PROVE  /\ RecAt(i) \in DOMAIN want'
                              /\ want'[RecAt(i)] = IF ver = 2 THEN {mem[RecAt(i)] \cap rec[i + 1]}
                                                              ELSE {rec[i + 1]}
            OBVIOUS
          <5>1. PICK l \in Loc : l = RecAt(i) /\ l[1] = "boot" /\ l[2] = i
            BY <1>6, <3>2, <3>3
          <5>2. 0 <= l[2] /\ l[2] < 0 + Len(rec) /\ (l[2] - 0) + 1 = i + 1
            BY <3>2, <5>1
          <5>3. QED
            BY <4>2, <5>1, <5>2
        <4>4. ver = 2 => ~Stubborn
          BY DEF Stubborn
        <4>5. \A i \in Fields : RecAt(i) \in DOMAIN want' /\ want'[RecAt(i)] = {rec[i + 1]}
          BY <1>4, <1>5, <4>3, <4>4
        <4>6. QED
          BY <4>2, <4>5 DEF Job
      <3>4. CASE where[1] # "boot"
        <4>1. where[1] = "user" /\ ~Stubborn
          BY <2>2, <3>1, <3>4 DEF Areas, Stubborn
        <4>2. userrow_save(rec) /\ Len(rec) <= RowSize
          BY <1>1, <1>3, <2>2, <3>1, <3>4
        <4>3. /\ ver' = ver /\ mem' = mem /\ Types' /\ Saving' /\ want' # Nothing
              /\ \A l \in Loc : l[1] = "user" /\ 0 <= l[2] /\ l[2] < 0 + Len(rec) =>
                   l \in DOMAIN want' /\ want'[l] = {mem[l] \cap rec[(l[2] - 0) + 1]}
          BY <1>2, <1>3, <4>2, UserSaved
        <4>4. \A i \in Fields : RecAt(i) \in DOMAIN want' /\ want'[RecAt(i)] = {mem[RecAt(i)] \cap rec[i + 1]}
          BY <1>6, <3>2, <4>1, <4>3
        <4>5. \A i \in Fields : RecAt(i) \in DOMAIN want' /\ want'[RecAt(i)] = {rec[i + 1]}
          BY <1>4, <1>5, <4>1, <4>4
        <4>6. QED
          BY <4>3, <4>5 DEF Job
      <3>5. QED
        BY <3>3, <3>4
    <2>3. QED
      BY <2>1, <2>2
  <1>8. Types' /\ Job' /\ Calls' /\ Room' /\ matched' = TRUE
    BY <1>1, <1>7, CallKeeps DEF InCall
  <1>9. Kept' /\ Made' /\ Putting'
    BY <1>1, <1>2, <1>7 DEF Sample, Kept, RecAt, Made, NewRec, Putting
  <1>10. Sketch'
    BY <1>1, <1>2, <1>9 DEF Sketch, Sample, Loaded, Wiping, Blank, Saved
  <1>11. QED
    BY <1>8, <1>10 DEF NvmInv

\* A call returns: what it promised is done.
LEMMA BackKeeps ==
  ASSUME NvmInv, Back
  PROVE  NvmInv' /\ Ended
  <1>1. /\ pc \in InCall /\ Return
        /\ pc' = CASE pc = "clearing" -> "save" [] pc = "saving" -> "verify" [] OTHER -> "api"
        /\ UNCHANGED <<prog, where, rec, given, matched>>
    BY DEF Back, InCall
  <1>2. /\ Idle /\ todo' = <<>> /\ call' = NoCall /\ buf' = NoBuffer /\ word' = 0 /\ want' = Nothing
        /\ ver' = ver /\ mem' = mem /\ pbuf' = pbuf /\ at' = at
    BY <1>1 DEF Return, EndCall, nvm
  <1>3. Ended
    BY <1>2, JobIdle DEF NvmInv
  <1>4. NoBuffer \in [Places -> Byte] /\ DOMAIN Nothing \subseteq Loc
    BY DEF NoBuffer, Places, Byte, Erased, Nothing
  <1>5. CallType'
    <2>1. /\ call'.script = <<>> /\ call'.area = "flash" /\ call'.top = 0 /\ call'.off = 0 /\ call'.data = <<>>
          /\ call'.size = 0
          /\ call' = [script |-> call'.script, area |-> call'.area, top |-> call'.top, off |-> call'.off,
                      data |-> call'.data, size |-> call'.size]
      BY <1>2 DEF NoCall
    <2>2. <<>> \in Seq(Byte) /\ "flash" \in Areas
      BY DEF Areas
    <2>3. QED
      BY <2>1, <2>2 DEF CallType
  <1>6. Types'
    BY <1>2, <1>4, <1>5 DEF NvmInv, Types, NvmType
  <1>7. Ended'
    BY <1>2, <1>3 DEF Ended, Spare, Nothing
  <1>8. Calls' /\ Room' /\ Job'
    BY <1>1, <1>2, <1>7 DEF NvmInv, Calls, Resting, Room, Takes, Job
  <1>9. Sketch'
    <2>1. CASE prog = "sample"
      <3>1. Sample /\ pc \in {"clearing", "saving"}
        BY <1>1, <2>1 DEF NvmInv, Sketch, InCall
      <3>2. Kept' /\ Loaded' /\ Made' /\ Wiping' /\ Putting'
        BY <1>1, <1>2, <3>1 DEF Sample, Kept, RecAt, Loaded, Made, NewRec, Wiping, Putting
      <3>3. Blank'
        <4>1. CASE pc = "clearing"
          <5>1. \A i \in Fields : mem[RecAt(i)] \in want[RecAt(i)]
            BY <1>3, <3>1, <4>1 DEF Ended, Sample, Wiping
          <5>2. \A i \in Fields : want[RecAt(i)] = {Erased} \/ (i = 0 /\ Stubborn)
            BY <3>1, <4>1 DEF Sample, Wiping
          <5>3. \A i \in Fields : mem[RecAt(i)] = Erased \/ (i = 0 /\ Stubborn)
            BY <5>1, <5>2
          <5>4. QED
            BY <1>1, <1>2, <5>3 DEF Blank, RecAt, Stubborn
        <4>2. CASE pc = "saving"
          BY <1>1, <4>2 DEF Blank
        <4>3. QED
          BY <3>1, <4>1, <4>2
      <3>4. Saved'
        <4>1. CASE pc = "saving"
          <5>1. \A i \in Fields : mem[RecAt(i)] = rec[i + 1]
            BY <1>3, <3>1, <4>1 DEF Ended, Sample, Putting
          <5>2. QED
            BY <1>1, <1>2, <5>1 DEF Saved, RecAt
        <4>2. CASE pc = "clearing"
          BY <1>1, <4>2 DEF Saved
        <4>3. QED
          BY <3>1, <4>1, <4>2
      <3>5. QED
        BY <1>1, <2>1, <3>1, <3>2, <3>3, <3>4 DEF Sketch, Sample
    <2>2. CASE prog # "sample"
      BY <1>1, <2>2 DEF NvmInv, Sketch, InCall
    <2>3. QED
      BY <2>1, <2>2
  <1>10. QED
    BY <1>1, <1>3, <1>6, <1>8, <1>9 DEF NvmInv

\* The rounds of bootrow_verify, for a record that fits the row.
LEMMA FourRounds ==
  ASSUME NEW r \in Nat, RecLen <= r
  PROVE  RoundsOf(RecLen, r) = RecLen
  <1>1. r = 4 => 4 % r = 0
    BY SMT
  <1>2. r > 4 => 4 % r = 4
    BY SMT
  <1>3. r = 4 \/ r > 4
    BY DEF RecLen
  <1>4. QED
    BY <1>1, <1>2, <1>3 DEF RoundsOf, RecLen

\* The comparison finds what was written.
LEMMA VerifyKeeps ==
  ASSUME NvmInv, Verify
  PROVE  NvmInv'
  <1>1. /\ pc = "verify" /\ pc' = "enter" /\ UNCHANGED <<nvm, running, want, prog, where, rec, given>>
        /\ matched' = CASE where[1] = "flash" -> Stored = rec
                        [] where[1] = "boot"  -> bootrow_verify(rec, RowSize)
                        [] OTHER              -> userrow_verify(rec)
    BY DEF Verify
  <1>2. Ended /\ want = Nothing /\ Types /\ Room /\ prog = "sample" /\ Sample /\ where \in Records
    BY <1>1 DEF NvmInv, Calls, Resting, Sketch, Room
  <1>3. Types' /\ Ended' /\ Job'
    BY <1>1, <1>2, EndedSame
  <1>4. ver' = ver /\ mem' = mem
    BY <1>1 DEF nvm
  <1>5. Calls' /\ Room'
    BY <1>1, <1>2, <1>3, <1>4 DEF Calls, Resting, Room, Takes
  <1>6. /\ rec \in Seq(Byte) /\ Len(rec) = RecLen
        /\ \A i \in Fields : mem[RecAt(i)] = rec[i + 1]
    BY <1>1, <1>2, RecSeq DEF Sample, Made, Saved
  <1>7. \A i \in 1 .. RecLen : mem[<<where[1], where[2] + (i - 1)>>] = rec[i]
    <2> SUFFICES ASSUME NEW i \in 1 .. RecLen PROVE mem[<<where[1], where[2] + (i - 1)>>] = rec[i]
      OBVIOUS
    <2>1. i - 1 \in Fields /\ (i - 1) + 1 = i
      BY DEF Fields, RecLen
    <2>2. QED
      BY <1>6, <2>1 DEF RecAt
  <1>8. rec = [i \in 1 .. RecLen |-> rec[i]]
    BY <1>6
  <1>9. where[1] # "flash" => \A i \in 1 .. RecLen : mem[<<where[1], i - 1>>] = rec[i]
    <2> SUFFICES ASSUME where[1] # "flash", NEW i \in 1 .. RecLen PROVE mem[<<where[1], i - 1>>] = rec[i]
      OBVIOUS
    <2>1. where[2] = 0
      BY <1>2, RecIs
    <2>2. 0 + (i - 1) = i - 1
      BY DEF RecLen
    <2>3. QED
      BY <1>7, <2>1, <2>2
  <1>10. matched' = TRUE
    <2>1. CASE where[1] = "flash"
      <3>1. Stored = rec
        BY <1>7, <1>8 DEF Stored
      <3>2. QED
        BY <1>1, <2>1, <3>1
    <2>2. CASE where[1] = "boot"
      <3>1. RoundsOf(Len(rec), RowSize) = RecLen
        <4>1. RowSize \in Nat /\ RecLen <= RowSize
          BY <1>2, <2>2, RecIs, Sizes0
        <4>2. QED
          BY <1>6, <4>1, FourRounds
      <3>2. bootrow_verify(rec, RowSize)
        <4>1. \A i \in 1 .. RecLen : i <= RecLen
          BY DEF RecLen
        <4>2. \A i \in 1 .. RecLen : i <= Len(rec) /\ mem[<<"boot", i - 1>>] = rec[i]
          <5> SUFFICES ASSUME NEW i \in 1 .. RecLen
                       PROVE  i <= Len(rec) /\ mem[<<"boot", i - 1>>] = rec[i]
            OBVIOUS
          <5>1. Len(rec) = RecLen /\ i <= RecLen
            BY <1>6, <4>1
          <5>2. mem[<<where[1], i - 1>>] = rec[i]
            BY <1>9, <2>2
          <5>3. QED
            BY <2>2, <5>1, <5>2
        <4>3. bootrow_verify(rec, RowSize) =
                \A i \in 1 .. RoundsOf(Len(rec), RowSize) : i <= Len(rec) /\ mem[<<"boot", i - 1>>] = rec[i]
          BY DEF bootrow_verify
        <4>4. QED
          BY <3>1, <4>2, <4>3
      <3>3. QED
        BY <1>1, <2>2, <3>2
    <2>3. CASE where[1] # "flash" /\ where[1] # "boot"
      <3>1. where[1] = "user"
        BY <1>2, <2>3, RecIs DEF Areas
      <3>2. userrow_verify(rec)
        BY <1>6, <1>8, <1>9, <3>1 DEF userrow_verify, userrow_load
      <3>3. QED
        BY <1>1, <2>3, <3>2
    <2>4. QED
      BY <2>1, <2>2, <2>3
  <1>11. Sketch'
    BY <1>1, <1>2, <1>4 DEF Sketch, Sample, Kept, RecAt, Loaded, Made, Wiping, Blank, Putting, Saved
  <1>12. QED
    BY <1>3, <1>5, <1>10, <1>11 DEF NvmInv

\* Any call.
LEMMA AnyCallKeeps ==
  ASSUME ~past', NvmInv, AnyCall
  PROVE  NvmInv'
  <1>1. pc = "api" /\ pc' = "calling" /\ UNCHANGED <<prog, where, rec, given, matched>>
    BY DEF AnyCall
  <1>2. prog # "sample" /\ Types /\ Ended
    BY <1>1 DEF NvmInv, Calls, Resting, Sketch
  <1>3. Types' /\ Job' /\ want' # Nothing /\ ver' = ver
    <2>1. ASSUME NEW a \in Starts, NEW n \in Sizes, InMemory(a - (a % PageSize), n), page_erase_PF(a, n)
          PROVE  Types' /\ Job' /\ want' # Nothing /\ ver' = ver
      <3>1. a \in Nat /\ n \in Nat \ {0}
        BY NvmSampleAssumption
      <3>2. ver' = ver /\ mem' = mem /\ Types' /\ Clearing' /\ want' # Nothing
        BY <1>2, <2>1, <3>1, EraseCalled
      <3>3. QED
        BY <3>2 DEF Job
    <2>2. ASSUME NEW a \in Starts, NEW d \in Sources, InMemory(a, Len(d)), Takes(a, Len(d)), page_update_PF(a, d)
          PROVE  Types' /\ Job' /\ want' # Nothing /\ ver' = ver
      <3>1. a \in Nat /\ d \in Seq(Byte) /\ d # <<>>
        BY NvmSampleAssumption
      <3>2. ver' = ver /\ mem' = mem /\ Types' /\ Updating' /\ want' # Nothing
        BY <1>2, <2>2, <3>1, UpdateCalled
      <3>3. QED
        BY <3>2 DEF Job
    <2>3. CASE bootrow_clear
      BY <1>2, <2>3, BootCleared DEF Job
    <2>4. CASE userrow_clear
      <3>1. Types' /\ want' # Nothing /\ ver' = ver /\ IF ver = 0 THEN Saving' ELSE Clearing'
        BY <1>2, <2>4, UserCleared
      <3>2. QED
        BY <3>1 DEF Job
    <2>5. ASSUME NEW d \in Sources, Len(d) <= RowSize, bootrow_save(d) \/ userrow_save(d)
          PROVE  Types' /\ Job' /\ want' # Nothing /\ ver' = ver
      <3>1. d \in Seq(Byte) /\ d # <<>>
        BY NvmSampleAssumption
      <3>2. ver' = ver /\ Types' /\ Saving' /\ want' # Nothing
        BY <1>2, <2>5, <3>1, BootSaved, UserSaved
      <3>3. QED
        BY <3>2 DEF Job
    <2>6. QED
      BY <2>1, <2>2, <2>3, <2>4, <2>5 DEF AnyCall
  <1>4. Types' /\ Job' /\ Calls' /\ Room' /\ matched' = TRUE
    BY <1>1, <1>3, CallKeeps DEF InCall
  <1>5. Sketch'
    BY <1>1, <1>2 DEF Sketch
  <1>6. QED
    BY <1>4, <1>5 DEF NvmInv

\* The start: an empty or a worn memory, and no call.
LEMMA NvmStarts ==
  ASSUME Init, ~past
  PROVE  NvmInv
  <1>1. /\ ver \in {0, 2, 3} /\ (\E b \in {Erased, {}} : mem = [l \in Loc |-> b])
        /\ pbuf = NoBuffer /\ at = <<"flash", 0>> /\ todo = <<>> /\ call = NoCall /\ buf = NoBuffer
        /\ word = 0 /\ want = Nothing
    BY DEF Init, InitCalls, InitNvm
  <1>2. /\ prog \in {"sample", "api"} /\ where \in Records /\ (ver = 0 => where[1] # "boot")
        /\ (~past => (where[1] = "flash" => Takes(where[2], RecLen))) /\ pc = "off" /\ given = Byte /\ matched = TRUE
    BY DEF Init
  <1>3. NoBuffer \in [Places -> Byte] /\ DOMAIN Nothing \subseteq Loc /\ \A i \in Places : NoBuffer[i] = Erased
    BY DEF NoBuffer, Places, Byte, Erased, Nothing
  <1>4. mem \in [Loc -> Byte]
    BY <1>1 DEF Byte, Erased
  <1>5. at \in Loc
    <2>1. 0 \in Nat /\ 0 < Pages * PageSize
      BY Sizes0, SMT
    <2>2. QED
      BY <1>1, <2>1, Locs
  <1>6. CallType
    <2>1. /\ call.script = <<>> /\ call.area = "flash" /\ call.top = 0 /\ call.off = 0 /\ call.data = <<>>
          /\ call.size = 0
          /\ call = [script |-> call.script, area |-> call.area, top |-> call.top, off |-> call.off,
                     data |-> call.data, size |-> call.size]
      BY <1>1 DEF NoCall
    <2>2. <<>> \in Seq(Byte) /\ "flash" \in Areas
      BY DEF Areas
    <2>3. QED
      BY <2>1, <2>2 DEF CallType
  <1>7. Types
    BY <1>1, <1>3, <1>4, <1>5, <1>6 DEF Types, NvmType
  <1>8. Ended
    BY <1>1, <1>3 DEF Ended, Spare, Nothing
  <1>9. Calls /\ Job /\ Room
    BY <1>1, <1>2, <1>8 DEF Calls, Job, Room, Resting
  <1>10. Kept
    <2>1. RecAt(0) \in Loc
      BY <1>2, RecIs DEF Fields, RecLen
    <2>2. QED
      BY <1>2, <1>4, <2>1 DEF Kept
  <1>11. Sketch
    BY <1>2, <1>10 DEF Sketch, Sample, Loaded, Made, Wiping, Blank, Putting, Saved
  <1>12. QED
    BY <1>2, <1>7, <1>9, <1>11 DEF NvmInv

\* Every step keeps the invariant.
LEMMA NvmKeeps ==
  ASSUME ~past', NvmInv, [Next]_vars
  PROVE  NvmInv'
  <1>1. CASE Steps /\ UNCHANGED app
    BY <1>1, StepKeeps
  <1>2. CASE Finish /\ UNCHANGED <<running, want, app>>
    BY <1>2, SameKeeps DEF Finish, app
  <1>3. CASE Start
    BY <1>3, StartKeeps
  <1>4. CASE Reset
    BY <1>4, ResetKeeps
  <1>5. CASE Load
    BY <1>5, LoadKeeps
  <1>6. CASE Fix
    BY <1>6, FixKeeps
  <1>7. CASE Clear
    BY <1>7, ClearKeeps
  <1>8. CASE Save
    BY <1>8, SaveKeeps
  <1>9. CASE Back
    BY <1>9, BackKeeps
  <1>10. CASE Verify
    BY <1>10, VerifyKeeps
  <1>11. CASE AnyCall
    BY <1>11, AnyCallKeeps
  <1>12. CASE UNCHANGED vars
    BY <1>12, SameKeeps DEF vars, nvm, app
  <1>13. QED
    BY <1>1, <1>2, <1>3, <1>4, <1>5, <1>6, <1>7, <1>8, <1>9, <1>10, <1>11, <1>12 DEF Next

LEMMA StaysPast ==
  ASSUME past, Next
  PROVE  past'
  BY DEF Next, app, Start, Reset, Load, Fix, Clear, Save, Back, Verify, AnyCall

\* The inductive invariant holds until version 0 is asked for more than it can do.
THEOREM NvmIsKept == Spec => [](past \/ NvmInv)
  <1>1. Init => past \/ NvmInv
    BY NvmStarts
  <1>2. (past \/ NvmInv) /\ [Next]_vars => (past \/ NvmInv)'
    <2>1. CASE Next
      BY <2>1, NvmKeeps, StaysPast
    <2>2. CASE UNCHANGED vars
      BY <2>2, NvmKeeps DEF vars, app
    <2>3. QED
      BY <2>1, <2>2
  <1>3. QED
    BY <1>1, <1>2, PTL DEF Spec

\* A record that a reset tore is not taken for a whole one, on any chip, at any
\* place of a page that is written, with any bytes: the magic goes first and
\* comes last.
THEOREM TornRecordsAreSeen == FairSpec => []TornIsSeen
  <1>1. past \/ NvmInv => TornIsSeen
    <2>1. SUFFICES ASSUME NvmInv, pc = "fix", Valid PROVE rec[1] \in given
      BY DEF TornIsSeen
    <2>2. rec = Stored /\ Kept
      BY <2>1 DEF NvmInv, Sketch, Sample, Loaded
    <2>3. rec[1] = mem[RecAt(0)] /\ rec[RecLen] = mem[RecAt(RecLen - 1)]
      <3>1. rec = [i \in 1 .. RecLen |-> mem[RecAt(i - 1)]]
        BY <2>2 DEF Stored, RecAt
      <3>2. 1 - 1 = 0 /\ 1 \in 1 .. RecLen /\ RecLen \in 1 .. RecLen
        BY DEF RecLen
      <3>3. QED
        BY <3>1, <3>2
    <2>4. QED
      BY <2>1, <2>2, <2>3 DEF Valid, Kept
  <1>2. QED
    BY <1>1, NvmIsKept, PTL DEF FairSpec

\* The comparison after the writing never fails, if the record lies where it is
\* written: everywhere, but on version 0 in the first half of a page.
THEOREM RecordsMatch == FairSpec => []Matched
  <1>1. past \/ NvmInv => Matched
    BY DEF NvmInv, Matched
  <1>2. QED
    BY <1>1, NvmIsKept, PTL DEF FairSpec

\* Every step is one of the memory that NorMemory promises, or none.
LEMMA NvmRefines ==
  ASSUME NvmInv, [Next]_vars
  PROVE  [Memory!Next]_Memory!mvars
  <1> USE DEF Memory!Next, Memory!mvars, Memory!None, Nothing
  <1>1. CASE Steps /\ UNCHANGED app
    <2>1. want' = want /\ pc' = pc /\ pc \in InCall /\ InOrder
      BY <1>1, StepsKeep, StepKeeps DEF app
    <2>2. want # <<>> /\ pc # "off" /\ DOMAIN mem = Loc
      BY <2>1 DEF NvmInv, Calls, InCall, Resting, Types, NvmType
    <2>3. \A l \in Loc : mem'[l] # mem[l] => l \in DOMAIN want /\ mem'[l] \in want[l]
      BY <2>1, OnlyAsked
    <2>4. Memory!Touch
      BY <2>1, <2>2, <2>3 DEF Memory!Touch
    <2>5. QED
      BY <2>4
  <1>2. CASE Finish /\ UNCHANGED <<running, want, app>>
    BY <1>2 DEF Finish, app
  <1>3. CASE Start
    <2>1. Memory!Start
      BY <1>3 DEF Start, nvm, Memory!Start
    <2>2. QED
      BY <2>1
  <1>4. CASE Reset
    <2>1. Memory!Reset
      BY <1>4 DEF Reset, EndCall, ResetNvm, Memory!Reset
    <2>2. QED
      BY <2>1
  <1>5. CASE Load \/ Fix \/ Verify
    BY <1>5 DEF Load, Fix, Verify, nvm
  <1>6. CASE Clear \/ Save \/ AnyCall
    <2>1. mem' = mem /\ pc # "off" /\ pc' # "off" /\ want = <<>>
      <3>1. pc \in {"clear", "save", "api"} /\ pc' # "off"
        BY <1>6 DEF Clear, Save, AnyCall
      <3>2. want = <<>>
        BY <3>1 DEF NvmInv, Calls, Resting
      <3>3. mem' = mem
        BY <1>6 DEF Clear, Save, AnyCall, page_erase_PF, page_update_PF, bootrow_clear, bootrow_save,
                    userrow_clear, userrow_save, Begin, nvm
      <3>4. QED
        BY <3>1, <3>2, <3>3
    <2>2. CASE want' = <<>>
      BY <2>1, <2>2
    <2>3. CASE want' # <<>>
      <3>1. Memory!Ask
        BY <2>1, <2>3 DEF Memory!Ask
      <3>2. QED
        BY <3>1
    <2>4. QED
      BY <2>2, <2>3
  <1>7. CASE Back
    <2>1. Ended /\ pc # "off" /\ want # <<>> /\ want' = <<>> /\ mem' = mem /\ pc' # "off"
      <3>1. Ended
        BY <1>7, BackKeeps
      <3>2. Return /\ pc \in {"clearing", "saving", "calling"} /\ pc' \in {"save", "verify", "api"}
        BY <1>7 DEF Back
      <3>3. QED
        BY <3>1, <3>2 DEF Return, EndCall, nvm
    <2>2. Memory!Reply
      BY <2>1 DEF Memory!Reply, Ended
    <2>3. QED
      BY <2>2
  <1>8. CASE UNCHANGED vars
    BY <1>8 DEF vars, nvm, app
  <1>9. QED
    BY <1>1, <1>2, <1>3, <1>4, <1>5, <1>6, <1>7, <1>8 DEF Next

\* Over all calls, pages, rows and resets, with any bytes: only what was asked
\* is erased or written, and all of it is when the call returns, until version
\* 0 is asked for more than it can do.
THEOREM MemoryIsAsAsked == FairSpec => AsAsked
  <1>1. Init => Memory!Init
    BY DEF Init, InitCalls, Memory!Init, Memory!None, Nothing
  <1>2. (past \/ NvmInv) /\ [Next]_vars => [past' \/ Memory!Next]_Memory!mvars
    <2>1. CASE past /\ Next
      BY <2>1, StaysPast
    <2>2. CASE UNCHANGED vars
      BY <2>2 DEF vars, nvm, app, Memory!mvars
    <2>3. CASE NvmInv
      BY <2>3, NvmRefines
    <2>4. QED
      BY <2>1, <2>2, <2>3
  <1>3. QED
    BY <1>1, <1>2, NvmIsKept, PTL DEF FairSpec, Spec, AsAsked
=============================================================================
