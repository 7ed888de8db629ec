----------------------------- MODULE NvmSample ------------------------------
(***************************************************************************)
(* Programs over FlashNVM and UrowNVM.  "sample" is the one all sketches   *)
(* under src/examples/EEPROM and NVM share: a record with a boot count and *)
(* a magic word at its end, read, counted up, erased, written and compared *)
(* once per start.  "api" makes any MaxCalls calls.  A reset comes at any  *)
(* time.                                                                   *)
(***************************************************************************)
EXTENDS UrowNVM

CONSTANTS
  Records,    \* where a record may lie: <<area, offset>>
  Sources,    \* what "api" writes: sequences of bytes
  Sizes,      \* how many bytes it erases
  Starts,     \* the addresses of its calls
  MaxCalls    \* how many calls it makes, over all resets

\* The record: a count of as many values as a byte has, a date, the magic.
RecLen == 4

\* A record lies in one page, or at the start of its row.
ASSUME NvmSampleAssumption ==
  /\ 0 \in Bits
  /\ \A r \in Records :
       \/ /\ r[2] \in Nat /\ r = <<"flash", r[2]>>
          /\ (r[2] % PageSize) + RecLen <= PageSize /\ r[2] + RecLen <= Pages * PageSize
       \/ r \in {<<"boot", 0>>, <<"user", 0>>} /\ RecLen <= RowSize
  /\ Sources \subseteq Seq(Byte) \ {<<>>}
  /\ Sizes \subseteq Nat \ {0} /\ Starts \subseteq Nat

VARIABLES
  prog,    \* "sample" or "api"
  where,   \* where the record is
  pc,      \* where the program is
  rec,     \* nvm_buffer
  given,   \* the counts a reader may find: the one before, and the new one
  matched, \* what the comparison said
  calls,   \* calls "api" made
  past     \* history: version 0 is asked for more than it can write

app  == <<prog, where, pc, rec, given, matched, calls, past>>
vars == <<nvm, running, want, app>>

Magic    == Bits \ {0}
Date     == {}
Counts   == 0 .. 3
Number(n) == {b \in Bits : (n \div (2 ^ b)) % 2 = 1}
Count(b)  == CHOOSE n \in Counts : Number(n) = b
Stored    == [i \in 1 .. RecLen |-> mem[<<where[1], where[2] + i - 1>>]]

\* What is in the half of a page that version 0 does write.
Takes(a, n) == ver # 0 \/ (a % PageSize) + n <= PageSize \div 2

Init ==
  /\ ver \in {0, 2, 3} /\ InitCalls
  /\ mem \in {[l \in Loc |-> b] : b \in {Erased, {}}}
  /\ prog \in {"sample", "api"} /\ where \in Records
  /\ (prog = "api" => where = <<"flash", 0>>)
  /\ (ver = 0 => where[1] # "boot")
  /\ past = (where[1] = "flash" /\ ~Takes(where[2], RecLen))
  /\ pc = "off" /\ rec = <<>> /\ given = Byte /\ matched = TRUE /\ calls = 0

Start ==
  /\ pc = "off" /\ pc' = IF prog = "sample" THEN "load" ELSE "api"
  /\ UNCHANGED <<nvm, running, want, prog, where, rec, given, matched, calls, past>>

Reset ==
  /\ pc' = "off" /\ EndCall /\ ResetNvm /\ rec' = <<>>
  /\ UNCHANGED <<prog, where, given, matched, calls, past>>

-----------------------------------------------------------------------------
(* The sketches.                                                           *)

Load ==
  /\ pc = "load" /\ pc' = "fix" /\ rec' = Stored
  /\ UNCHANGED <<nvm, running, want, prog, where, given, matched, calls, past>>

Valid == rec[RecLen] = Magic

\* USERROW_sample starts at ~0 and FlashNVM_fillspace at 0, and both add 1.
Fix ==
  /\ pc = "fix" /\ pc' = "clear"
  /\ \E c \in IF Valid THEN {Count(rec[1])} ELSE {3, 0} :
    /\ rec' = <<Number((c + 1) % 4), Date, Date, Magic>>
    /\ given' = {Number((c + 1) % 4)} \union (IF Valid THEN {rec[1]} ELSE {})
  /\ UNCHANGED <<nvm, running, want, prog, where, matched, calls, past>>

Clear ==
  /\ pc = "clear" /\ pc' = "clearing"
  /\ CASE where[1] = "flash" -> page_erase_PF(where[2], RecLen)
       [] where[1] = "boot"  -> bootrow_clear
       [] OTHER              -> userrow_clear
  /\ UNCHANGED <<prog, where, rec, given, matched, calls, past>>

Save ==
  /\ pc = "save" /\ pc' = "saving"
  /\ CASE where[1] = "flash" -> page_update_PF(where[2], rec)
       [] where[1] = "boot"  -> bootrow_save(rec)
       [] OTHER              -> userrow_save(rec)
  /\ UNCHANGED <<prog, where, rec, given, matched, calls, past>>

Back ==
  /\ pc \in {"clearing", "saving", "calling"} /\ Return
  /\ pc' = CASE pc = "clearing" -> "save" [] pc = "saving" -> "verify" [] OTHER -> "api"
  /\ UNCHANGED <<prog, where, rec, given, matched, calls, past>>

Verify ==
  /\ pc = "verify" /\ pc' = "enter"
  /\ matched' = CASE where[1] = "flash" -> Stored = rec
                  [] where[1] = "boot"  -> bootrow_verify(rec, RowSize)
                  [] OTHER              -> userrow_verify(rec)
  /\ UNCHANGED <<nvm, running, want, prog, where, rec, given, calls, past>>

-----------------------------------------------------------------------------
(* Any calls.                                                              *)

InMemory(a, n) == a + n <= Pages * PageSize
AnyCall ==
  /\ pc = "api" /\ pc' = "calling" /\ calls < MaxCalls /\ calls' = calls + 1
  /\ \/ /\ UNCHANGED past
        /\ \/ \E a \in Starts, n \in Sizes : InMemory(a - (a % PageSize), n) /\ page_erase_PF(a, n)
           \/ bootrow_clear
           \/ userrow_clear
           \/ \E d \in Sources : Len(d) <= RowSize /\ (bootrow_save(d) \/ userrow_save(d))
     \/ \E a \in Starts, d \in Sources :
          /\ InMemory(a, Len(d)) /\ page_update_PF(a, d)
          /\ past' = (past \/ ~Takes(a, Len(d)))
  /\ UNCHANGED <<prog, where, rec, given, matched>>

Next == \/ Steps /\ UNCHANGED app
        \/ Finish /\ UNCHANGED <<running, want, app>>
        \/ Start \/ Reset \/ Load \/ Fix \/ Clear \/ Save \/ Back \/ Verify \/ AnyCall

Spec == Init /\ [][Next]_vars

\* The code runs on and the controller ends what it does.
FairSpec == Spec /\ WF_vars(Steps /\ UNCHANGED app) /\ WF_vars(Finish /\ UNCHANGED <<running, want, app>>)

-----------------------------------------------------------------------------
(* Properties.                                                             *)

\* Over all calls, page boundaries and resets: only what was asked is erased
\* or written, and it is when the call returns, until version 0 is asked to
\* write beyond the first half of a page.
Memory == INSTANCE NorMemory WITH up <- pc # "off"
AsAsked == Memory!Init /\ [][past' \/ Memory!Next]_(Memory!mvars)

\* Whatever the reset interrupts, a record with its magic is a whole one: the
\* one before, or the new one.  On version 0, a record in the half of a page
\* that is written.
TornIsSeen == pc = "fix" /\ Valid /\ ~past => rec[1] \in given

\* The record erased and written compares equal: on version 0, a record in the
\* half of a page that is written.
Matched == pc = "enter" /\ ~past => matched

\* Each call comes to its end (or the chip is reset).
Returns == todo # <<>> ~> todo = <<>>
=============================================================================
