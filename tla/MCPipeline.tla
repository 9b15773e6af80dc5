----------------------------- MODULE MCPipeline -----------------------------
(* Values for TLC: a chat question, or a widget's question together with an  *)
(* admin's slash command.                                                    *)
EXTENDS Pipeline, TLC

CONSTANTS chat, web, cmd, faq

MCArrivals == {{chat}, {web, cmd}}
MCMatch == chat :> faq @@ web :> faq @@ cmd :> None
=============================================================================
