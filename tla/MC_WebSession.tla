--------------------------- MODULE MC_WebSession ---------------------------
(* Small instances of WebSession. *)
EXTENDS WebSession, TLC

CONSTANTS t1, t2, b1, b2, alice, bob

OneBrowser  == [t \in Tabs |-> b1]
TwoBrowsers == (t1 :> b1 @@ t2 :> b2)
Everything  == AllKinds
ToStay      == {"login", "read", "change"}
ToSignOut   == {"login", "read", "logout"}
=============================================================================
