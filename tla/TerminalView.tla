---------------------------- MODULE TerminalView ----------------------------
(***************************************************************************)
(* What the terminal transport promises a viewer: the screen of an         *)
(* attached terminal goes forward through the output of its pane, never    *)
(* back, and never past a piece of it.  TerminalMux implements this.       *)
(***************************************************************************)
EXTENDS Integers

CONSTANTS Viewers, Panes, Detached

VARIABLES
  produced,   \* [Panes -> Nat]: how much output there has been
  screen      \* [Viewers -> [Panes -> Nat \cup {Detached}]]

vars == <<produced, screen>>

Init ==
  /\ produced = [p \in Panes |-> 0]
  /\ screen = [v \in Viewers |-> [p \in Panes |-> Detached]]

Produce(p) ==
  /\ produced' = [produced EXCEPT ![p] = @ + 1]
  /\ UNCHANGED screen

Show(v, p) ==
  /\ screen[v][p] # Detached
  /\ \E n \in screen[v][p] + 1 .. produced[p] : screen' = [screen EXCEPT ![v][p] = n]
  /\ UNCHANGED produced

(* Closed terminals, broken connections and lost output detach terminals,  *)
(* of any number of viewers at once.                                       *)
Without(gone) ==
  [v \in Viewers |-> [p \in Panes |-> IF <<v, p>> \in gone THEN Detached ELSE screen[v][p]]]
Detach ==
  /\ \E gone \in SUBSET (Viewers \X Panes) : screen' = Without(gone)
  /\ UNCHANGED produced

(* Attaching paints some state of the pane, up to the present one, and may *)
(* cost others theirs.                                                     *)
Attach(v, p) ==
  /\ screen[v][p] = Detached
  /\ \E gone \in SUBSET (Viewers \X Panes), n \in 0 .. produced[p] :
       screen' = [Without(gone) EXCEPT ![v][p] = n]
  /\ UNCHANGED produced

Next ==
  \/ \E p \in Panes : Produce(p)
  \/ \E v \in Viewers, p \in Panes : Show(v, p) \/ Attach(v, p)
  \/ Detach

Spec == Init /\ [][Next]_vars
=============================================================================
