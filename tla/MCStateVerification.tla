------------------------- MODULE MCStateVerification -------------------------
(***************************************************************************)
(* Two forks that part after block 1.  Account 1 has two slots; slot 1 is  *)
(* set in block 1 and again in block 2 of fork "a", slot 2 only on "a".    *)
(* Account 2 has the same state everywhere but on fork "b".                *)
(***************************************************************************)
EXTENDS StateVerification, TLC

MCRank == [s \in Slots |-> IF s = "s1" THEN 1 ELSE 2]

MCChain == [f \in Forks |-> (0 :> "genesis") @@ (1 :> "common")
                             @@ (2 :> (IF f = "a" THEN "a2" ELSE "b2"))]

Account(meta, code, s1, s2) ==
    [meta |-> meta, code |-> code, slots |-> [s \in Slots |-> IF s = "s1" THEN s1 ELSE s2]]
MCStateOf ==
    ("genesis" :> ((1 :> Account(0, "none", 0, 1)) @@ (2 :> Account(0, "none", 0, 0))))
    @@ ("common" :> ((1 :> Account(1, "token", 1, 1)) @@ (2 :> Account(1, "proxy", 0, 0))))
    @@ ("a2" :> ((1 :> Account(1, "token", 2, 3)) @@ (2 :> Account(2, "proxy", 0, 0))))
    @@ ("b2" :> ((1 :> Account(1, "token", 1, 3)) @@ (2 :> Account(2, "other", 0, 0))))

Command(kind) == [kind |-> kind, accounts |-> Accounts, block |-> None, pin |-> None,
                  selected |-> None, complete |-> FALSE]
Capture == Command("capture")
Postgres == Command("postgres")

Captures == {[Capture EXCEPT !.block = 2], [Capture EXCEPT !.block = 2, !.pin = "a2"]}
Verifies == {Postgres, [Postgres EXCEPT !.complete = TRUE, !.selected = 1]}
MCOptions == [c \in Clients |-> IF c = "first" THEN Captures \cup Verifies \cup {Command("updates")}
                                ELSE {Capture, Command("updates"), Command("output")}]

\* A stale slot, which is the right value on fork "b", and a wrong nonce.
MCDefects == {<<1, "s1">> :> 1, <<2, "meta">> :> 1}
============================================================================
