---------------------------- MODULE MCNativeValues ----------------------------
EXTENDS NativeValues

Texts(chars, n) == UNION {[1 .. k -> chars] : k \in 0 .. n}

\* Mantissas as %g prints them: no leading zero, no trailing zero after a point.
MCJobs ==
  {[op |-> "float", neg |-> neg, digits |-> d, point |-> 1, exp10 |-> e] :
     neg \in BOOLEAN, e \in -3 .. 3,
     d \in {s \in Texts({0, 1}, 3) : s # <<>> /\ s[1] # 0 /\ (Len(s) = 1 \/ s[Len(s)] # 0)}}
  \cup {[op |-> "token", token |-> t] : t \in Texts({Dash, Equals, 1}, 4)}
  \cup {[op |-> "search", haystack |-> s, needle |-> n] :
          s \in Texts({0, 1}, 4), n \in Texts({0, 1}, 2)}

\* Elements of different types never meet in an array, so a behaviour has
\* elements of one type.
OneElementType ==
  Cardinality({array[a].elem : a \in Arrays} \cup ({heap[b].kind : b \in Live} \cap {"string", "struct"})) <= 1
===============================================================================
