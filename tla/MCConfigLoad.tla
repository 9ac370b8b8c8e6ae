----------------------------- MODULE MCConfigLoad -----------------------------
(* Model-checking instance of ConfigLoad: every program with files of up to  *)
(* eight lines, whose last line may lack its newline.  Shipped is            *)
(* wcx_trans_setup's iec104_master.conf without its optimized_tag file.      *)
EXTENDS ConfigLoad

MCWords == STRING

Note == [t |-> "note", name |-> "", text |-> <<>>, more |-> FALSE]
Open == [t |-> "open", name |-> "", text |-> <<>>, more |-> FALSE]
Text(more) == [t |-> "text", name |-> "", text |-> <<"c">>, more |-> more]
More(line) == [line EXCEPT !.more = TRUE]
User(key) == KeyLine(key, <<"u">>)
Ip(tail) == KeyLine("ip", <<"a", ",", "b">> \o tail)

Rest == <<Section("C_IC_NA"), User("qoi"), Section("C_CI_NA"), User("qoi")>>

Shipped == <<Section("tag_file"), User("file"), Note, Section("csv_file_path"), User("path")>>
           \o Rest \o <<Section("DBServer"), Ip(<<",">>)>>

OfMaster == {
    Shipped,
    <<Section("DBServer"), Ip(<<>>)>> \o Rest,
    <<Section("DBServer"), More(User("other")), Text(FALSE), Ip(<<",">>)>>,
    <<Section("DBServer"), More(Ip(<<",">>)), Text(TRUE), Text(FALSE), Section("tag_file")>>,
    <<Section("DBServer"), User("rtu_sn"), Text(FALSE), Ip(<<",">>)>>,
    <<Section("tag_file"), User("file"), Open, Section("DBServer"), Ip(<<",">>)>>,
    <<Section("DBServer"), Section("tag_file"), User("file"), Section("DBServer"), Ip(<<",">>)>>,
    <<Note, Section("tag_file"), More(User("file")), Section("DBServer"), Ip(<<",">>)>> }

OfSlave == {
    <<Section("iec104_slave"), User("max_w"), Note, User("t3"), User("port")>>,
    <<Section("iec104_slave"), User("asdu_addr"), Text(FALSE), User("t1")>>,
    <<Section("other"), User("port"), Section("iec104_slave"), Open>> }

Of103 == {
    <<Section("others"), More(User("display")), Text(FALSE), Section("Serial:0"), User("file_node")>>,
    <<Section("tag_file_optimized"), More(User("other")), Section("tag_file")>>,
    <<Section("tag_file"), Section("others"), User("csv_file_path")>> }

OfCollector == {
    <<Section("db"), User("path_wcx_db"), User("path_wyx_db"), User("path_fast_tag_db"), Section("auto"),
      Ip(<<>>), KeyLine("condition_id", <<>>), KeyLine("condition_operator", <<">", ",">>)>> }

File(contents) == {Missing, Emptied} \cup [exists : {TRUE}, lines : contents, ended : BOOLEAN]

MCInstalled ==
    ({Master104, Client104} \X File(OfMaster)) \cup ({Slave104} \X File(OfSlave))
    \cup ({Master103} \X File(Of103)) \cup ({Collector} \X File(OfCollector))
===============================================================================
