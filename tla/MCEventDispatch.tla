-------------------------- MODULE MCEventDispatch --------------------------
(* A small instance of EventDispatch: an element in or out of a shadow tree, *)
(* an event that bubbles out of it, and four listeners at most: two under    *)
(* one signal, one of them a once listener on the way, one at the window and *)
(* one of the page's own at the signal.                                      *)
EXTENDS EventDispatch

CONSTANTS inner, root, host, window, noNode, sig, noSignal, f, g

Option(t, cb, capture, once, signal) ==
  [target |-> t, callback |-> cb, capture |-> capture, once |-> once, signal |-> signal]

MCOffer == {
  Option(inner, f, FALSE, FALSE, sig),
  Option(inner, g, FALSE, FALSE, noSignal),
  Option(host, g, TRUE, TRUE, sig),
  Option(sig, f, FALSE, FALSE, noSignal)}

=============================================================================
