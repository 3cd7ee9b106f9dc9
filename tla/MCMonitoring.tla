---------------------------- MODULE MCMonitoring ----------------------------
(* Model-checking instance of Monitoring: two gauges that raise an alert    *)
(* each, and one that is always well.                                        *)
EXTENDS Monitoring

MCLevels == [health |-> {"ok"}, disk |-> {"ok", "low"}, jobs |-> {"ok", "stuck"}]
=============================================================================
