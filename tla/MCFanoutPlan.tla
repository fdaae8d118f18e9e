---------------------------- MODULE MCFanoutPlan ----------------------------
(***************************************************************************)
(* The plans FanoutPlan is checked on.                                     *)
(***************************************************************************)
EXTENDS FanoutPlan, TLC

Part(id, needs, files, readOnly) ==
    [id |-> id, depends_on |-> needs, target_files |-> files,
     read_only |-> readOnly, role |-> "coder", filled |-> TRUE]

At(f, s) == [file |-> f, spelling |-> s]

Others(id, all) == all \ {id}

\* Four parts with any dependencies; the first three write one file and the
\* last only reads it.
AnyShape ==
    LET N == {"s1", "s2", "s3", "s4"}
        f == {At("lib", "plain")}
    IN  {<<Part("s1", d[1], f, FALSE), Part("s2", d[2], f, FALSE),
           Part("s3", d[3], f, FALSE), Part("s4", d[4], f, TRUE)>> :
            d \in (SUBSET {"s2", "s3", "s4"}) \X (SUBSET {"s1", "s3", "s4"})
                  \X (SUBSET {"s1", "s2", "s4"}) \X (SUBSET {"s1", "s2", "s3"})}

\* Three parts in any acyclic or cyclic shape, each writing some of two files,
\* one of them spelt in three ways.
AnyFiles ==
    LET W == {{}, {At("lib", "plain")}, {At("lib", "dotted"), At("main", "plain")},
              {At("main", "backslashed")}}
    IN  {<<Part("s1", d[1], w[1], FALSE), Part("s2", d[2], w[2], FALSE),
           Part("s3", d[3], w[3], FALSE)>> :
            d \in (SUBSET {"s2", "s3"}) \X (SUBSET {"s1", "s3"}) \X (SUBSET {"s1", "s2"}),
            w \in W \X W \X W}

\* What validate, evaluate and the role check refuse: no parts, one part, too
\* many, ids used twice, unknown and own ids, blank parts, paths that climb out.
Refusable ==
    LET P == [id : {"s1", "s2"}, depends_on : SUBSET {"s1", "s2", "s9"},
              target_files : {{}, {At("lib", "climbing")}}, read_only : {FALSE},
              role : {"coder", "chatter"}, filled : BOOLEAN]
        Alone(id) == Part(id, {}, {}, FALSE)
    IN  {<<>>} \cup {<<p>> : p \in P}
        \cup {<<p, Alone("s2")>> : p \in P}
        \cup {<<Alone("s1"), Alone("s2"), Alone("s3"), Alone("s4"), Alone("s5")>>}

\* Two parts that write one file, its path spelt in every two ways.
SpeltTwice ==
    {<<Part("s1", {}, {At("lib", s)}, FALSE), Part("s2", d, {At("lib", t)}, FALSE)>> :
        s \in Spellings, t \in Spellings, d \in SUBSET {"s1"}}

ManyPlans == AnyShape \cup AnyFiles \cup Refusable \cup SpeltTwice
=============================================================================
