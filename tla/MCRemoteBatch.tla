---- MODULE MCRemoteBatch ----
EXTENDS RemoteBatch

\* Two batch files: with a line after "exit", and without "exit".
MCFiles == {<<"a", "exit", "b">>, <<"a", "b">>}
\* No output, plain output, output that holds two prompts of its own.
MCOutputs == {<<>>, <<"x">>, <<"%", " ", "%", " ">>}
====
