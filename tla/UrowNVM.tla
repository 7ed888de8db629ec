------------------------------ MODULE UrowNVM -------------------------------
(***************************************************************************)
(* UrowNVM (src/cpp/UrowNVM.cpp): erasing and writing the user row, with   *)
(* stores of its own instead of the boot loader's; the steps are the same. *)
(***************************************************************************)
EXTENDS FlashNVM

UserClear2 == <<"FLPER", "dummy", "NOOP", "wait">>
UserClear3 == <<"NOOP", "dummy", "FLPER", "wait">>
UserClear0 == <<"store", "FLPERW", "wait">>
UserSave2  == <<"wait", "FLWR", "store", "NOOP", "wait">>
UserSave3  == <<"wait", "NOOP", "store", "FLPW", "wait">>
NoCommand  == <<"store", "wait">>                  \* mutant: never programmed
UserSave0  == <<"store", "FLPW", "wait">>

\* Version 0 stores 0xFF all over the row.
AllOnes == [i \in 1 .. RowSize |-> Erased]
userrow_clear ==
  Begin(<<>>, CASE ver = 2 -> UserClear2 [] ver = 3 -> UserClear3 [] OTHER -> UserClear0,
        "user", 0, 0, AllOnes, 0, Ones("user", 0, RowSize - 1))

userrow_save(d) ==
  Begin(<<>>, CASE ver = 2 -> UserSave2 [] ver = 3 -> UserSave3 [] OTHER -> UserSave0,
        "user", 0, 0, d, 0, Anded("user", 0, d))

userrow_load(n)   == [i \in 1 .. n |-> mem[<<"user", i - 1>>]]
userrow_verify(d) == userrow_load(Len(d)) = d
=============================================================================
