----------------------------- MODULE MCCanonical -----------------------------
(***************************************************************************)
(* A small instance of Canonical: texts over a dot, two digits, a capital, *)
(* an "a" and a "v"; namespaces around each other, some of which others    *)
(* separate in the order.                                                  *)
(***************************************************************************)
EXTENDS Canonical

MCChar == {46, 48, 49, 65, 97, 118}

\* a.  a.a.  a.v.  a0.  a_.  v.
MCPrefixes ==
  { <<97, 46>>, <<97, 46, 97, 46>>, <<97, 46, 118, 46>>, <<97, 48, 46>>,
    <<97, 95, 46>>, <<118, 46>> }
=============================================================================
