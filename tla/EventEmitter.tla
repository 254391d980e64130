---------------------------- MODULE EventEmitter ----------------------------
(***************************************************************************)
(* src/js/gotalk/EventEmitter.js: the listeners of one event, in the order *)
(* they were added.  A listener added with once takes itself out of the    *)
(* list as it is called, while emit counts on through the same list.       *)
(***************************************************************************)
EXTENDS Integers, SequencesExt

\* A listener: who it belongs to, and whether once added it.
Listener(who, once) == [who |-> who, once |-> once]

AddListener(list, who) == Append(list, Listener(who, FALSE))
Once(list, who)        == Append(list, Listener(who, TRUE))

\* removeListener takes out the listener at i.
Without(list, i) == SubSeq(list, 1, i - 1) \o SubSeq(list, i + 1, Len(list))

\* One round of emit's loop.  The count of rounds was taken before the first; a
\* place past the end of the list holds undefined, and calling it throws.
EmitRound(acc, i) ==
  CASE acc.threw -> acc
    [] ~acc.threw /\ i > Len(acc.list) -> [acc EXCEPT !.threw = TRUE]
    [] OTHER ->
         [acc EXCEPT !.called = Append(@, acc.list[i].who),
                     !.list = IF acc.list[i].once THEN Without(@, i) ELSE @]

\* emit: its rounds, and after the last who was called, in order, what is left of the
\* list, and whether it threw.
Rounds(list) ==
  LET after[i \in 0 .. Len(list)] ==
        IF i = 0 THEN [list |-> list, called |-> <<>>, threw |-> FALSE]
        ELSE EmitRound(after[i - 1], i)
  IN after
Emit(list) == Rounds(list)[Len(list)]
=============================================================================
