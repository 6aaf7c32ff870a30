---------------------------- MODULE MCDisruptedIO ----------------------------
(* Instances of DisruptedIO for TLC. *)
EXTENDS DisruptedIO

\* The tests of tests/ha run these side by side, two s3bench threads with one
\* event_set_clr among them.
Casts == {<<"bench", "bench">>, <<"put", "get">>, <<"copy", "delete">>,
          <<"mpu", "users">>, <<"cruds", "version">>,
          <<"overwrite", "get">>}

Overwriting == {<<"overwrite">>}

=============================================================================
