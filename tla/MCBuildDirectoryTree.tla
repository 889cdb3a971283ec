------------------------ MODULE MCBuildDirectoryTree ------------------------
(***************************************************************************)
(* Instances of BuildDirectoryTree for TLC: an output lib made from a      *)
(* source file, alone or with an output app made from lib and, in the      *)
(* Diamond, from the source file too.                                      *)
(***************************************************************************)
EXTENDS BuildDirectoryTree, TLC

CONSTANTS src, lib, app

Alone == lib :> {src}
Chain == (lib :> {src}) @@ (app :> {lib})
Diamond == (lib :> {src}) @@ (app :> {lib, src})
LibRule == lib :> 1
BothRules == (lib :> 1) @@ (app :> 1)
Names == 1..5

NoCopies == {}
AppCopies == {<<app, 2>>}

(* The rules at the start, of which one then comes, changes or goes: app   *)
(* becomes a copy of lib in two of these, and is one before lib comes in a *)
(* third.                                                                  *)
Starts == {(lib :> l) @@ (app :> a) : l \in 0..1, a \in 0..1}
             \cup {(lib :> 0) @@ (app :> 2)}

RulesSpec == (\E rules \in Starts : InitWith(rules)) /\ [][Next]_vars

=============================================================================
