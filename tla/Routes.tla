------------------------------- MODULE Routes -------------------------------
(***************************************************************************)
(* What each route of the application asks of its caller: the dependency   *)
(* of its router, the permission it requires itself, and what its handler  *)
(* does then.  A router is the record of its handlers.                     *)
(***************************************************************************)

Public == {"asset:read", "root:read", "indicator:read", "report:read", "api_asset:read",
           "code_table:read", "field_mapping:read", "lineage:read"}

MaintainerCodes ==
  {"asset:write", "root:write", "indicator:write", "report:write", "api_asset:write",
   "upstream:read", "upstream:write", "push:read", "push:write", "code_table:write",
   "field_mapping:write", "metadata:read", "metadata:write", "operation_log:read"}

SystemCodes ==
  {"system:user:read", "system:user:write", "system:menu:read", "system:menu:write",
   "system:param:read", "system:param:write", "system:role:read", "system:role:write"}

\* PERMISSION_DEFINITIONS
Registered == Public \cup MaintainerCodes \cup SystemCodes

Nothing == ""

Guard(gate, needs, does) == [gate |-> gate, needs |-> needs, does |-> does]

\* An answer the handler projects for its caller; one it gives as it is.
Catalog == Guard("catalog", Nothing, "project")
Plain == Guard("catalog", Nothing, "read")
Detail(code) == Guard("catalog", code, "read")
Writes(code) == Guard("catalog", code, "write")
Export(code, does) == Guard("export", code, does)
Opened(does) == Guard("none", Nothing, does)
System(code, does) == Guard("none", code, does)
Behind(code, does) == Guard("session", code, does)

-----------------------------------------------------------------------------
AuthRoutes == [current_user |-> Guard("none", Nothing, "me")]

InfrastructureRoutes ==
  [get_capabilities |-> Opened("read"), get_public_catalog_configuration |-> Opened("read"),
   get_portal_stats |-> Catalog, get_search_hot_keywords |-> Catalog,
   get_rag_recommendations |-> Catalog, unified_search |-> Catalog]

AskRoutes == [get_ai_ask_status |-> Plain, ask_ai |-> Catalog]

LineageRoutes ==
  [get_bootstrap |-> Catalog, get_assets |-> Catalog, get_subgraph |-> Catalog,
   get_initial_view |-> Catalog]

AssetReads ==
  [get_asset_tables |-> Catalog, get_asset_detail |-> Catalog, get_asset_fields |-> Catalog,
   get_asset_ddl |-> Catalog, get_domains |-> Catalog, get_layers |-> Catalog]

AssetWrites ==
  [create_asset_table |-> Writes("asset:write"), update_asset_table |-> Writes("asset:write"),
   update_asset_fields |-> Writes("asset:write"), delete_asset_table |-> Writes("asset:write")]

\* The same by id, of assets whose names are not unique.
AssetRoutesById ==
  [get_asset_detail_by_id |-> Catalog, get_asset_fields_by_id |-> Catalog,
   get_asset_ddl_by_id |-> Catalog, update_asset_table_by_id |-> Writes("asset:write"),
   update_asset_fields_by_id |-> Writes("asset:write"),
   delete_asset_table_by_id |-> Writes("asset:write")]

ApiReads ==
  [list_assets |-> Catalog, page_assets |-> Catalog, downstream_systems |-> Catalog,
   systems |-> Catalog, detail |-> Catalog]

ApiWrites ==
  [create |-> Writes("api_asset:write"), update |-> Writes("api_asset:write"),
   status |-> Writes("api_asset:write"), delete |-> Writes("api_asset:write"),
   replace_rows |-> Writes("api_asset:write")]

MappingRoutes ==
  [import_field_mappings |-> Writes("field_mapping:write"), get_source_systems |-> Catalog,
   get_mapping_stats |-> Catalog, get_field_mappings |-> Catalog, get_table_mappings |-> Catalog]

MappingExport == [export_field_mappings |-> Export("field_mapping:read", "stream")]

IndicatorReads ==
  [get_indicators |-> Catalog, get_indicator_dimensions |-> Plain,
   get_indicator_detail |-> Catalog]

IndicatorPathRoutes == [get_indicator_path_tree |-> Catalog]

IndicatorWrites ==
  [create_indicator |-> Writes("indicator:write"), update_indicator |-> Writes("indicator:write"),
   patch_indicator_status |-> Writes("indicator:write"),
   delete_indicator |-> Writes("indicator:write")]

CodeTableReads ==
  [list_manual_code_tables |-> Catalog, page_manual_code_tables |-> Catalog,
   export_manual_code_tables |-> Export("code_table:read", "project"), get_manual_code_table |-> Catalog]

CodeTableWrites ==
  [create_manual_code_table |-> Writes("code_table:write"),
   update_manual_code_table |-> Writes("code_table:write"),
   patch_manual_code_table_status |-> Writes("code_table:write"),
   delete_manual_code_table |-> Writes("code_table:write")]

PushReads ==
  [get_system_options |-> Detail("push:write"), get_systems |-> Catalog,
   get_system_admin_detail |-> Detail("push:read"), get_system_detail |-> Catalog]

PushWrites ==
  [create_system |-> Writes("push:write"), update_system |-> Writes("push:write"),
   delete_system |-> Writes("push:write"), create_job |-> Writes("push:write"),
   update_job |-> Writes("push:write"), delete_job |-> Writes("push:write")]

UpstreamReads ==
  [get_system_options |-> Detail("upstream:write"), get_systems |-> Catalog,
   get_system_detail |-> Catalog, get_system_admin_detail |-> Detail("upstream:read")]

UpstreamWrites ==
  [create_system |-> Writes("upstream:write"), update_system |-> Writes("upstream:write"),
   patch_system_status |-> Writes("upstream:write"), delete_system |-> Writes("upstream:write")]

ReportReads ==
  [get_reports |-> Catalog, get_report_options |-> Detail("report:write"),
   get_report_detail |-> Catalog]

ReportWrites ==
  [create_report |-> Writes("report:write"), update_report |-> Writes("report:write"),
   delete_report |-> Writes("report:write")]

RootReads ==
  [get_roots |-> Catalog, get_root_page |-> Catalog, get_root_abbreviations |-> Catalog,
   get_root_categories |-> Catalog, get_root_detail |-> Catalog]

RootWrites ==
  [create_root |-> Writes("root:write"), update_root |-> Writes("root:write"),
   delete_root |-> Writes("root:write"), import_root_items |-> Writes("root:write")]

MetadataRoutes ==
  [ingest_assets |-> Behind("metadata:write", "write"),
   ingest_lineage |-> Behind("metadata:write", "write"),
   get_ingestion |-> Behind("metadata:read", "read")]

OperationLogRoutes ==
  [get_operation_logs |-> Behind("operation_log:read", "read"),
   get_operation_log_detail |-> Behind("operation_log:read", "read")]

UserRoutes ==
  [get_users |-> System("system:user:read", "read"),
   get_users_page |-> System("system:user:read", "read"),
   create_user |-> System("system:user:write", "account"),
   patch_user_role |-> System("system:user:write", "account"),
   update_user |-> System("system:user:write", "account"),
   patch_user_status |-> System("system:user:write", "account"),
   reset_user_password |-> System("system:user:write", "write"),
   delete_user |-> System("system:user:write", "account")]

RoleRoutes ==
  [get_permissions |-> System("system:role:read", "read"),
   get_roles |-> System("system:role:read", "read"),
   get_roles_page |-> System("system:role:read", "read"),
   create_role |-> System("system:role:write", "role"),
   update_role |-> System("system:role:write", "role"),
   delete_role |-> System("system:role:write", "role")]

MenuRoutes ==
  [get_menus |-> Opened("project"), get_menus_page |-> System("system:menu:read", "read"),
   create_menu |-> System("system:menu:write", "write"),
   update_menu |-> System("system:menu:write", "write"),
   patch_menu_status |-> System("system:menu:write", "write"),
   patch_menu_move |-> System("system:menu:write", "write"),
   delete_menu |-> System("system:menu:write", "write")]

RagConfigRoutes ==
  [get_rag_search_config |-> System("system:param:read", "read"),
   update_rag_search_config |-> System("system:param:write", "write"),
   get_rag_search_diagnostics |-> System("system:param:read", "read")]

DictionaryRoutes ==
  [get_param_categories |-> System("system:param:read", "read"),
   patch_param_category_status |-> System("system:param:write", "write"),
   get_param_dicts |-> System("system:param:read", "read"),
   get_param_dicts_page |-> System("system:param:read", "read"),
   create_param_dict |-> System("system:param:write", "write"),
   update_param_dict |-> System("system:param:write", "write"),
   patch_param_dict_status |-> System("system:param:write", "write"),
   delete_param_dict |-> System("system:param:write", "write")]

Guards(router) == {router[handler] : handler \in DOMAIN router}

RoutesOf ==
  [auth |-> Guards(AuthRoutes),
   infrastructure |-> Guards(InfrastructureRoutes) \cup Guards(AskRoutes),
   lineage |-> Guards(LineageRoutes),
   assets |-> Guards(AssetReads) \cup Guards(AssetWrites) \cup Guards(AssetRoutesById),
   api |-> Guards(ApiReads) \cup Guards(ApiWrites),
   mappings |-> Guards(MappingRoutes) \cup Guards(MappingExport),
   indicators |-> Guards(IndicatorReads) \cup Guards(IndicatorPathRoutes) \cup Guards(IndicatorWrites),
   code_tables |-> Guards(CodeTableReads) \cup Guards(CodeTableWrites),
   push |-> Guards(PushReads) \cup Guards(PushWrites),
   upstream |-> Guards(UpstreamReads) \cup Guards(UpstreamWrites),
   reports |-> Guards(ReportReads) \cup Guards(ReportWrites),
   roots |-> Guards(RootReads) \cup Guards(RootWrites),
   metadata |-> Guards(MetadataRoutes),
   operation_logs |-> Guards(OperationLogRoutes),
   users |-> Guards(UserRoutes), roles |-> Guards(RoleRoutes), menus |-> Guards(MenuRoutes),
   parameters |-> Guards(RagConfigRoutes) \cup Guards(DictionaryRoutes)]
=============================================================================
