----------------------------- MODULE MCSession -----------------------------
(* Five loads after the first, three requests and three codes: an answer may *)
(* come for any request or twice for one, with a reload during the           *)
(* exchange and a page that is gone back to.                                 *)
EXTENDS Session
=============================================================================
