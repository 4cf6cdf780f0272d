--------------------------- MODULE RegisterScript ---------------------------
(***************************************************************************)
(* The notation the register-level models are written in.  What a function *)
(* of the driver does to its adapter is a script: a sequence of steps, one *)
(* per access another processor can come in between.  Module AvbHardware   *)
(* says what each step does; here is only how scripts are put together.    *)
(*                                                                         *)
(* A step that succeeds goes hit steps forward, one that fails miss steps; *)
(* miss = 0 is the early return of the function with an error, which its   *)
(* caller either passes on or not (Attempt, OrElse).  Computations between *)
(* the accesses are left out, unless they decide what happens next.        *)
(***************************************************************************)
EXTENDS Naturals, Sequences

Step(op, reg, on, off) ==
  <<[op |-> op, reg |-> reg, on |-> on, off |-> off, hit |-> 1, miss |-> 0]>>
Do(op) == Step(op, "none", {}, {})

(***************************************************************************)
(* Register accesses.  A register is the set of the flags in it the models *)
(* tell apart.  The actor has one local copy: Read and Load fill it,       *)
(* Change edits it, Put writes it to a register.                           *)
(***************************************************************************)
Read(r)             == Step("read", r, {}, {})
Write(r, flags)     == Step("write", r, flags, {})
Clear(r, flags)     == Step("clear", r, {}, flags)      \* write-1-to-clear
Load(flags)         == Step("load", "none", flags, {})
Change(on, off)     == Step("change", "none", on, off)
PutWith(r, on, off) == Step("put", r, on, off)
Put(r)              == PutWith(r, {}, {})
Modify(r, on, off)  == Read(r) \o PutWith(r, on, off)
Pair(l, h)          == Read(l) \o Read(h)               \* a value in two registers
WritePair(l, h)     == Write(l, {}) \o Write(h, {})

(***************************************************************************)
(* SYSTIM, the clock: two halves, read and written one at a time.          *)
(***************************************************************************)
ReadClock  == Do("low") \o Do("high")
WriteClock == Do("set low") \o Do("set high")

(***************************************************************************)
(* TXSTMP: the timestamp of a packet that was sent, kept until it is read. *)
(* "stamp ready" is the test of TSYNCTXCTL.TXTT.  RXSTMP is the same for a *)
(* message that came in; its valid bit, TSYNCRXCTL.RXTT, is never tested.  *)
(***************************************************************************)
StampReady == Do("stamp ready")
StampLow   == Do("stamp low")
StampHigh  == Do("stamp high")
Receipt    == Do("receipt low") \o Do("receipt high")

(***************************************************************************)
(* MDIC: a command, then polls until it is answered or they run out.       *)
(***************************************************************************)
Mdic == Do("command") \o Do("poll")

(***************************************************************************)
(* Tests: on the local copy, on the context, and those whose reason is     *)
(* left out.                                                               *)
(***************************************************************************)
Holds(flags)   == Step("holds", "none", flags, {})      \* one of the flags
AtLeast(state) == Step("at least", state, {}, {})       \* hw_state >= state
May            == Do("may")

(***************************************************************************)
(* What the system lends: a reference, memory, a window.                   *)
(***************************************************************************)
Take(r) == Step("take", r, {}, {})                      \* may fail
Use(r)  == Step("use", r, {}, {})
Give(r) == Step("give", r, {}, {})

(***************************************************************************)
(* Control.                                                                *)
(***************************************************************************)
Nothing == <<>>
Fail    == Do("fail")
Skip(n) == LET s == Do("skip")[1] IN <<[s EXCEPT !.hit = n]>>

\* Errors inside s go to where s ends, or beyond it.
Catch(s, beyond) ==
  [i \in DOMAIN s |->
     IF s[i].miss = 0 THEN [s[i] EXCEPT !.miss = Len(s) + 1 + beyond - i] ELSE s[i]]

Attempt(s)         == Catch(s, 0)
OrElse(s, t)       == Catch(s, 1) \o Skip(Len(t) + 1) \o t
Either(test, s, t) == Catch(test, Len(s) + 1) \o s \o Skip(Len(t) + 1) \o t
When(test, s)      == Catch(test, Len(s)) \o s
Unless(test, s)    == OrElse(test, s)

\* The operations a device does not have.
Absent == Do("absent")
Has(s) == s # Absent
=============================================================================
