------------------------------ MODULE MCHpJob ------------------------------
EXTENDS HpJob

\* With and without each option, not in every combination
MCOptions ==
    {[resetJob |-> r, duplexer |-> d, spooler |-> ~r, scaled |-> d] :
        r \in BOOLEAN, d \in BOOLEAN}
    \cup {[resetJob |-> TRUE, duplexer |-> TRUE, spooler |-> FALSE, scaled |-> FALSE]}

\* No graphics, a skipped first band, a band skipped between two; text that
\* GDI draws in the middle band; opaque text
MCContents ==
    {c \in Content : /\ c.grx \in {{}, {2}, {1, 3}}
                     /\ c.vector \subseteq {2}
                     /\ c.opaque => c.info}

=============================================================================
