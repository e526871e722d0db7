------------------------------- MODULE Memory -------------------------------
(***************************************************************************)
(* A tracee's memory as emuroot uses it (guest.c): unsigned addresses, of  *)
(* which some are mapped, strings that take up several cells, and the      *)
(* three ways of reaching them, tried in turn.  The room for rewritten     *)
(* arguments below the tracee's stack pointer is rewrite.c's.              *)
(*                                                                         *)
(* A cell is <<s, i>>, the i-th part of the string s: what an address      *)
(* holds is a string exactly when all its parts are there, in order.       *)
(***************************************************************************)
EXTENDS Integers, FiniteSetsExt

CONSTANTS
    WIDTH,              \* of an unsigned long
    Mapped,             \* the tracee's mapped addresses
    ALIGN,              \* 16
    SCRATCH_MARGIN,     \* 512
    Strings, Size,      \* the strings and their sizes, the NUL included
    Garbage             \* what a reader finds where there is no string

Space == 2 ^ WIDTH

ASSUME WidthAssumption == WIDTH \in Nat /\ Space \in Nat \ {0} /\ Mapped \subseteq 1 .. Space - 1
ASSUME AlignAssumption == ALIGN \in Nat \ {0} /\ SCRATCH_MARGIN \in Nat
ASSUME StringsAssumption == Garbage \in Strings /\ Size \in [Strings -> Nat \ {0}]

Addr == 0 .. Space - 1
Cell == Strings \X Nat

(* unsigned arithmetic, and & ~0xF *)
Plus(a, n) == (a + n) % Space
\* variant: signed
Minus_Signed(a, n) == a - n
Minus(a, n) == (a - n) % Space
Aligned(a) == a - (a % ALIGN)

(* how many of the len cells at a can be reached *)
Reached(a, len) == Max({k \in 0 .. len : \A j \in 0 .. k - 1 : Plus(a, j) \in Mapped})

-----------------------------------------------------------------------------
(* The three methods.  The kernel may forbid the first two; a tracer is    *)
(* always allowed the third.                                               *)
PROCESS_VM == 0
PROC_MEM == 1
PEEK_POKE == 2
Methods == {PROCESS_VM, PROC_MEM, PEEK_POKE}

(* one attempt by method m: the cells transferred, or -1 and errno *)
Attempt(m, allowed, a, len) ==
    IF m # PEEK_POKE /\ m \notin allowed
    THEN [method |-> m, n |-> -1, errno |-> IF m = PROCESS_VM THEN "EPERM" ELSE "EACCES"]
    ELSE IF Reached(a, len) = 0
    THEN [method |-> m, n |-> -1, errno |-> IF m = PROCESS_VM THEN "EFAULT" ELSE "EIO"]
    ELSE [method |-> m, n |-> Reached(a, len), errno |-> "none"]

denied(errno) == errno \notin {"EFAULT", "ESRCH", "EIO", "EINVAL"}

(* the first method, from the current one on, that is not refused: it is   *)
(* the one in use from now on                                              *)
transfer(m, allowed, a, len) ==
    LET answers(k) == LET r == Attempt(k, allowed, a, len)
                      IN  r.n >= 0 \/ ~denied(r.errno) \/ k = PEEK_POKE
    IN  Attempt(Min({k \in Methods : k >= m /\ answers(k)}), allowed, a, len)

-----------------------------------------------------------------------------
(* the string at an address.  One that runs into unmapped memory, of which *)
(* guest_read_str hands back the part that is there, counts as Garbage.    *)
Holds(mem, a, s) == \A j \in 0 .. Size[s] - 1 :
    Plus(a, j) \in Mapped /\ mem[Plus(a, j)] = <<s, j>>
Text(mem, a) ==
    IF a \in Mapped /\ Holds(mem, a, mem[a][1]) THEN mem[a][1] ELSE Garbage

(* guest_write of len cells that begin with s: as many of them as can be   *)
(* reached are written, whether or not that is all                         *)
Written(mem, a, s, len) ==
    LET n == Reached(a, len)
        offset(b) == Minus(b, a)
    IN  [b \in DOMAIN mem |-> IF offset(b) < n THEN <<s, offset(b)>> ELSE mem[b]]

(* emuroot_scratch: room below what is in use already, 0 when that wraps;  *)
(* the first room is below the stack pointer and the margin                *)
emuroot_scratch(top, len) ==
    LET addr == Aligned(Minus(top, len)) IN IF addr > top THEN 0 ELSE addr

\* variant: no margin
ScratchTop_NoMargin(sp) == Aligned(sp)
ScratchTop(sp) == Aligned(Minus(sp, SCRATCH_MARGIN))
=============================================================================
