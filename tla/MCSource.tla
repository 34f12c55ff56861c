------------------------------ MODULE MCSource ------------------------------
EXTENDS Source

\* A column of each kind, with and without wrappers, and one that holds a type
\* which is not its own.
MCColumnTypes == {<<"Int">>, <<"Nullable", "DateTime">>, <<"Bool">>,
                  <<"LowCardinality", "Nullable", "String">>, <<"Array", "Int">>}
=============================================================================
