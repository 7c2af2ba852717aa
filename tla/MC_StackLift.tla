---------------------------- MODULE MC_StackLift ----------------------------
(***************************************************************************)
(* Programs of two functions for StackLift: frames of two elements on a    *)
(* stack of four, every body of three parts, three callees.                *)
(***************************************************************************)
EXTENDS StackLift, TLC

MC_Reg == {"sp", "fp", "a0", "a1"}

I(op) == [op |-> op, dst |-> "a0", src |-> "a0", src2 |-> "a0", imm |-> 0,
          callee |-> "main", to |-> 1]
Addi(d, s, imm) == [I("addi") EXCEPT !.dst = d, !.src = s, !.imm = imm]
Gen(d, n) == [I("gen") EXCEPT !.dst = d, !.imm = n]
Ld(d, off, s) == [I("ld") EXCEPT !.dst = d, !.imm = off, !.src = s]
Sd(v, off, s) == [I("sd") EXCEPT !.src2 = v, !.imm = off, !.src = s]
Beqz(r, to) == [I("cbr") EXCEPT !.src = r, !.to = to]
Call(f) == [I("call") EXCEPT !.callee = f]
Ret == I("ret")

\* Uses of the stack and of other memory, registers that take a stack address,
\* give it back to sp, are saved and restored, or take data again.
Parts ==
    { <<Sd("a0", 0, "sp")>>, <<Sd("a0", 8, "sp")>>,
      <<Ld("a1", 0, "sp")>>, <<Ld("a1", 8, "sp")>>,
      <<Gen("a0", 8)>>, <<Gen("a0", 3), Addi("a1", "a0", 2)>>,
      <<Sd("a1", 0, "a0")>>, <<Ld("a0", 8, "a1")>>,
      <<Addi("fp", "sp", 16), Addi("sp", "fp", -16)>>,
      <<Addi("fp", "sp", 16), Sd("fp", 0, "sp"), Gen("fp", 8), Sd("a0", 0, "fp")>>,
      <<Addi("a0", "sp", 8), Sd("a0", 0, "sp"), Gen("a0", 4)>> }

MainCode(p, q, r) ==
    LET body == <<Addi("sp", "sp", -16)>> \o p \o q \o <<Call("leaf")>>
    IN  body \o <<Beqz("a0", Len(body) + Len(r) + 2)>> \o r
             \o <<Addi("sp", "sp", 16), Ret>>

Leaves ==
    { <<Addi("sp", "sp", -16), Sd("a0", 8, "sp"), Gen("a0", 0), Ld("a1", 8, "sp"),
        Addi("sp", "sp", 16), Ret>>,
      <<Addi("sp", "sp", -8), Sd("fp", 0, "sp"), Addi("fp", "sp", 8), Gen("a1", 7),
        Ld("fp", 0, "sp"), Addi("sp", "sp", 8), Ret>>,
      <<Addi("sp", "sp", -16), Sd("a0", 0, "sp"), Addi("sp", "sp", 16), Ret>> }

MC_Programs ==
    {[main |-> MainCode(p, q, r), leaf |-> leaf] :
        p \in Parts, q \in Parts, r \in Parts, leaf \in Leaves}

\* The discipline a program can be seen to follow: what is loaded or returned may be
\* anything, the branch of main skips its last part.
Infer(p) ==
    LET Join(t, u) == [r \in Reg |-> IF t[r] = u[r] THEN t[r] ELSE "any"]
        Start == [r \in Reg |-> IF r = "sp" THEN "stack" ELSE "any"]
        Entry(f) == IF f = Main THEN [Start EXCEPT !["a0"] = "data", !["a1"] = "data", !["fp"] = "data"]
                    ELSE Start
        places == [slots |-> "any", data |-> "data"]
        Tracked(f) == LET t[k \in DOMAIN p[f]] ==
                            IF k = 1 THEN {"sp"} ELSE Tracks(p[f][k - 1], t[k - 1])
                    IN  t
        Typed(f) == LET t[k \in DOMAIN p[f]] ==
                            LET i == p[f][k - 1]
                                next == IF i.op = "call" THEN Start ELSE After(i, t[k - 1], places)
                                from == {j \in 1..(k - 2) : p[f][j].op = "cbr" /\ p[f][j].to = k}
                            IN  IF k = 1 THEN Entry(f)
                                ELSE IF from = {} THEN next
                                ELSE Join(next, t[CHOOSE j \in from : TRUE])
                    IN  t
    IN  [track |-> [f \in DOMAIN p |-> Tracked(f)], types |-> [f \in DOMAIN p |-> Typed(f)],
         returns |-> [f \in DOMAIN p |-> Start], slots |-> "any", data |-> "data"]

\* A discipline is followed by programs that address the stack through other
\* registers and save them, and by programs that use other memory.
ASSUME \E p \in MC_Programs :
    /\ Follows(p, Infer(p))
    /\ \E k \in DOMAIN p.main : p.main[k] = Addi("sp", "fp", -16)
    /\ \E k \in DOMAIN p.main : p.main[k] = Sd("a1", 0, "a0")

\* Functions that address their locals through a frame pointer, as compilers do
\* without optimisation.
MC_FramePointer ==
    { [main |-> <<Addi("sp", "sp", -32), Sd("fp", 24, "sp"), Addi("fp", "sp", 32),
                  Gen("a0", 5), Sd("a0", -32, "fp"), Call("leaf"), Ld("a1", -32, "fp"),
                  Ld("fp", 24, "sp"), Addi("sp", "sp", 32), Ret>>,
       leaf |-> <<Addi("sp", "sp", -16), Sd("fp", 8, "sp"), Addi("fp", "sp", 16),
                  Gen("a0", 6), Sd("a0", -16, "fp"),
                  Ld("fp", 8, "sp"), Addi("sp", "sp", 16), Ret>>] }

=============================================================================
