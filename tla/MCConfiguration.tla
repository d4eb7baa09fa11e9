--------------------------- MODULE MCConfiguration ---------------------------
\* Arguments for Configuration: each kind of option, with zero, usual, extreme
\* and refused values.
EXTENDS Configuration

MCArgs ==
  {<<"input_batches", 0>>, <<"input_batches", 2>>, <<"input_batches", 5>>,
   <<"input_batches", -1>>, <<"cores", 9>>, <<"input_overlap", 6>>, <<"input_buf_len", 7>>,
   <<"input_mode", "dpdk_port">>, <<"input_mode", "text_file">>,
   <<"input_file", "f">>, <<"port1", "p">>, <<"conf_file", "c">>,
   <<"raw_rules_file", "raw">>, <<"compiled_rules_file", "comp">>,
   <<"regex_dev", "regex_dpdk">>, <<"hs_leftmost", TRUE>>,
   <<"dpdk", <<"-a", "fn1", "-a", "fn0">> >>, <<"dpdk", <<"-a", "short">> >>,
   <<"dpdk", <<"x", "x", "x", "x", "x", "x">> >>,
   <<"help", TRUE>>, <<"unknown", TRUE>>}

=============================================================================
