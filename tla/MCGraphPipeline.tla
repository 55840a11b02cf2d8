-------------------------- MODULE MCGraphPipeline --------------------------
EXTENDS GraphPipeline

CONSTANTS t1, t2

\* One chunk the cut empties, one it leaves a row of; a second partitioned
\* source with keys of its own, and some of the first's more than once.
Chunks == [x |-> << << 1, 3 >>, << 1 >>, << 4 >> >>, y |-> << << 5, 6, 7, 8 >> >>,
           z |-> << << 7, 8 >>, << 5 >>, << 4 >> >>]

Beside(words)        == [words |-> words, calls |-> (t1 :> 3) @@ (t2 :> 2), joins |-> 1]
Alone(words, most)   == [words |-> words, calls |-> (t1 :> 4) @@ (t2 :> 0), joins |-> most]

AnyProgram ==
  {Beside(ws) : ws \in {{"x", "add", "zero"}, {"x", "sub", "total"}, {"x", "add", "keep"},
                        {"x", "keep", "peak"}, {"x", "scaleUp", "scaleDown"},
                        {"x", "y", "add"}, {"x", "exchange", "sub"}}}
  \union {Alone(ws, 1) : ws \in {{"x", "z", "left", "peak"}, {"x", "z", "outer", "total"},
                                 {"x", "z", "right", "spread"}, {"x", "z", "keep", "positional"},
                                 {"x", "spread", "total"}, {"x", "exchange", "scaleUp"},
                                 {"x", "coalesce"}, {"x", "y", "inner"}}}
  \union {Alone({"x", "z", "inner"}, 2)}
=============================================================================
