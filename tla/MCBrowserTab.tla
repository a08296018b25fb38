---------------------------- MODULE MCBrowserTab ----------------------------
(* Source 1 has its first snapshot from the start; its transactions are     *)
(* classified, and one leaves.  Source 2 comes later, with an update that   *)
(* concerns one of its transactions.  Source 3 comes last and is empty.     *)
EXTENDS BrowserTab

Showing(observed, revision, results) ==
    [observed |-> observed, revision |-> revision, results |-> results]

Waiting == Showing(0, 0, <<>>)
Both(a, b) == [t \in {"a", "b"} |-> IF t = "a" THEN a ELSE b]

MCPublished ==
    << <<Showing(1, 0, Both(0, 0)), Waiting, Waiting>>,
       <<Showing(1, 1, Both(1, 0)), Showing(1, 0, Both(1, 0)), Waiting>>,
       <<Showing(2, 0, [t \in {"a"} |-> 1]), Showing(1, 1, Both(1, 1)),
         Showing(1, 0, <<>>)>> >>

MCAddresses ==
    {[pair |-> NoPair, txid |-> None], [pair |-> NoPair, txid |-> "a"],
     [pair |-> [side \in Sides |-> IF side = "left" THEN 3 ELSE 1], txid |-> "b"]}
=============================================================================
