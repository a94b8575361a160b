----------------------------- MODULE MCFlashStore -----------------------------
(***************************************************************************)
(* Two values of each setting and two tables of routes.                    *)
(***************************************************************************)
EXTENDS FlashStore

CONSTANTS fast, slow, home, away, none, near, far, nothing

MCTnc == {fast, slow}
MCRest == {home, away}
MCTables == {none, near, far}
=============================================================================
