------------------------------- MODULE MCLike -------------------------------
(***************************************************************************)
(* All texts and patterns of up to five bytes.  The two characters of two  *)
(* bytes share their lead byte.  A text may hold a percent sign.           *)
(***************************************************************************)
EXTENDS Like

MCSingle == {"a", "%", "_"}
MCLead == {"L"}
MCContinuation == {"x", "y"}

Valid(bytes, n) == UNION {{s \in [1..k -> bytes] : s \in Utf8} : k \in 0..n}

MCTexts == Valid({"a", "%", "L", "x", "y"}, 5)
MCPatterns == Valid({"a", "%", "_", "L", "x", "y"}, 5)
=============================================================================
