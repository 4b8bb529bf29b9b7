----------------------------- MODULE AdminPage -----------------------------
(***************************************************************************)
(* The pages of the web administration, libezcfg/src/bak/http: one         *)
(* definition per function, the commands it issues in order.  The index    *)
(* variables have the names of the code, with the function's own name for  *)
(* what would be child_index:                                              *)
(*   line    the last element put into the content of the page             *)
(*   input, select, option, item   inside the last line                    *)
(* What a page looks up in nvram only decides which elements it has.       *)
(***************************************************************************)
EXTENDS DocCommand

FirstLine == Add("line", "content", "")
NextLine  == Add("line", "content", "line")
NextLines(n) == Each([k \in 1..n |-> NextLine])

(* An element inside the last line.                                        *)
Inside(to, si) == <<Cmd("inside", to, "line", si)>>
Field  == NextLine \o Inside("input", "")
Fields(n) == Each([k \in 1..n |-> Field])
Radio  == Inside("input", "") \o Inside("item", "input")
NextRadio == Inside("input", "item") \o Inside("item", "input")
Link   == NextLine \o Inside("item", "")

(* A <select> in the last line with two options; lists of languages, areas *)
(* and connection types are as long as their tables.                       *)
Select == Inside("select", "")
Options == Add("option", "select", "") \o Add("option", "select", "option")
Selection == Select \o Options

-----------------------------------------------------------------------------

(* Four meta tags and the link to the style sheet, or the title.           *)
MetaTags == ezcfg_html_add_head_child("")
              \o Each([k \in 1..4 |-> ezcfg_html_add_head_child("meta")])

(* What the pages share.                                                   *)
ezcfg_http_html_admin_set_html_common_head ==
  MetaTags

set_html_head ==
  WithLocale("head_locale",
    Add("head_div", "form", "") \o Add("h1", "head_div", "")
    \o Add("h1_a", "h1", "") \o Add("h2", "head_div", "h1"))

set_html_foot ==
  WithLocale("foot_locale",
    Add("foot", "form", "main") \o Add("foot_p", "foot", ""))

save_cancel_buttons == {"setup_system", "setup_lan", "setup_wan",
  "management_authz", "management_default", "management_upgrade", "cnc_setup",
  "cnc_default", "cnc_latency"}
refresh_buttons == {"status_system", "status_lan", "view_dhcp_client_table",
  "status_wan", "cnc_latency"}

(* Both loops look for the section; a page may have all three buttons.     *)
set_html_button(section) ==
  WithLocale("button_locale",
    Read("request")
    \o Add("button", "content", "line")
    \o (IF section \in save_cancel_buttons
        THEN Add("button_input", "button", "")
               \o Add("button_input", "button", "button_input")
        ELSE <<>>)
    \o (IF section \in refresh_buttons
        THEN Add("button_input", "button",
                 IF section \in save_cancel_buttons THEN "button_input" ELSE "")
        ELSE <<>>))

-----------------------------------------------------------------------------

(* The menu: one list item per group, with the group's own list when the   *)
(* page belongs to it.                                                     *)
submenu_status_system      == Add("li2", "ul2", "")    \o Add("a2", "li2", "")
submenu_status_lan         == Add("li2", "ul2", "li2") \o Add("a2", "li2", "")
submenu_status_wan         == Add("li2", "ul2", "li2") \o Add("a2", "li2", "")
submenu_setup_system       == Add("li2", "ul2", "")    \o Add("a2", "li2", "")
submenu_setup_lan          == Add("li2", "ul2", "li2") \o Add("a2", "li2", "")
submenu_setup_wan          == Add("li2", "ul2", "li2") \o Add("a2", "li2", "")
submenu_management_authz   == Add("li2", "ul2", "")    \o Add("a2", "li2", "")
submenu_management_default == Add("li2", "ul2", "li2") \o Add("a2", "li2", "")
submenu_management_upgrade == Add("li2", "ul2", "li2") \o Add("a2", "li2", "")
submenu_cnc_setup          == Add("li2", "ul2", "")    \o Add("a2", "li2", "")
submenu_cnc_default        == Add("li2", "ul2", "li2") \o Add("a2", "li2", "")
submenu_cnc_latency        == Add("li2", "ul2", "li2") \o Add("a2", "li2", "")

MenuGroup(previous, open, submenus) ==
  WithLocale("group_locale",
    Read("request")
    \o Add("li", "ul", previous) \o Add("h3", "li", "") \o Add("a", "h3", "")
    \o (IF open THEN Add("ul2", "li", "h3") \o submenus ELSE <<>>))

html_menu_status(section) ==
  MenuGroup("", section \in {"status_system", "status_lan", "status_wan"},
            submenu_status_system \o submenu_status_lan \o submenu_status_wan)
html_menu_setup(section) ==
  MenuGroup("li", section \in {"setup_system", "setup_lan", "setup_wan"},
            submenu_setup_system \o submenu_setup_lan \o submenu_setup_wan)
html_menu_management(section) ==
  MenuGroup("li", section \in {"management_authz", "management_default",
                               "management_upgrade"},
            submenu_management_authz \o submenu_management_default
              \o submenu_management_upgrade)
html_menu_cnc(section) ==
  MenuGroup("li", section \in {"cnc_setup", "cnc_default", "cnc_latency"},
            submenu_cnc_setup \o submenu_cnc_default \o submenu_cnc_latency)

set_html_menu(section) ==
  WithLocale("menu_locale",
    Add("menu", "main", "") \o Add("ul", "menu", "")
    \o html_menu_status(section) \o html_menu_setup(section)
    \o html_menu_management(section) \o html_menu_cnc(section))

(* The main division of a page: the menu, a heading and the lines, closed  *)
(* by a line break and the buttons.                                        *)
Main(section, lines) ==
  Add("main", "form", "head_div") \o set_html_menu(section)
    \o Add("content", "main", "menu") \o FirstLine \o lines
    \o NextLine \o set_html_button(section)

-----------------------------------------------------------------------------

(* The main divisions.                                                     *)
DefaultResult ==
  Add("main", "form", "head_div") \o Add("content", "main", "") \o FirstLine
    \o NextLines(3) \o Link
set_html_main_cnc_default_result == DefaultResult
set_html_main_management_default_result == DefaultResult

set_html_main_cnc_default ==
  Main("cnc_default", NextLine \o Radio \o NextRadio)
set_html_main_management_default ==
  Main("management_default", NextLine \o Radio \o NextRadio)

(* While the test runs it can be stopped and reset, else started, with a   *)
(* warning when the machine is running.                                    *)
LatencyControl ==
  IfElse(Test,
    NextLine \o Radio \o NextLine \o Radio \o NextRadio,
    NextLine \o Radio \o If(Test, NextLine))
LatencyInformation == NextLines(3) \o NextLines(4) \o NextLines(4)
set_html_main_cnc_latency ==
  Main("cnc_latency", LatencyControl \o LatencyInformation)

set_html_main_cnc_setup ==
  Main("cnc_setup",
    IfElse(Test, NextLine \o Radio, NextLine \o Radio \o If(Test, NextLine))
    \o NextLine)

AccessControl == Field \o Field
WebAccess ==
  NextLine \o NextLine \o Selection
  \o If(Test, Each([k \in 1..2 |-> NextLine \o Radio \o NextRadio]))
TelnetAccess == NextLine \o NextLine \o Selection
set_html_main_management_authz ==
  Main("management_authz", AccessControl \o WebAccess \o TelnetAccess)

set_html_main_management_upgrade == Main("management_upgrade", Field \o NextLine)

(* The two radio buttons of the DNS choice both name no sibling: the       *)
(* second follows the first because an element without a sibling is put    *)
(* last.                                                                   *)
LanDhcpdRange == Fields(3)
LanDhcpdDns ==
  NextLine \o Inside("input", "") \o Inside("input", "") \o If(Test, Fields(3))
set_html_main_setup_lan_dhcpd ==
  NextLine \o NextLine \o Selection
  \o If(Test, LanDhcpdRange \o LanDhcpdDns \o Link)
set_html_main_setup_lan ==
  Main("setup_lan", Fields(2) \o If(Test, set_html_main_setup_lan_dhcpd))

set_html_main_setup_system ==
  Main("setup_system",
    NextLine \o Selection \o NextLine
    \o NextLine \o Selection \o If(Test, NextLine)
    \o NextLine \o Select \o If(Test, Options))

(* The connection types.  These functions return si: the failure of a line *)
(* is seen by the caller, that of an element inside it is not.             *)
LinesOnly(s) == ToEnd(s, {"inside"}) \o Forgive("element")
WanKeepAlive ==
  NextLine \o Inside("select", "")
  \o <<Cmd("inside", "option", "select", "")>>
  \o <<Cmd("inside", "option", "select", "option")>>
  \o IfElse(Test, Field, Field)

set_setup_wan_static == LinesOnly(Fields(3) \o Fields(3))
set_setup_wan_pppoe  == LinesOnly(Fields(3) \o WanKeepAlive)
WanPptpNetwork == Fields(3) \o Fields(3)
WanPptpAccount == Fields(3)
set_setup_wan_pptp ==
  LinesOnly(WanPptpNetwork \o WanPptpAccount \o WanKeepAlive)
set_setup_wan_l2tp == LinesOnly(Fields(3) \o WanKeepAlive)
set_setup_wan_optional_settings ==
  LinesOnly(NextLine \o Fields(2)
    \o NextLine \o Inside("select", "")
    \o <<Cmd("inside", "option", "select", "")>>
    \o <<Cmd("inside", "option", "select", "option")>>
    \o If(Test, Field))

(* Types without a handler have no lines of their own, and a connection    *)
(* that is disabled has no optional settings either.                       *)
SetupWanType ==
  IfElse(Test, set_setup_wan_static,
    IfElse(Test, set_setup_wan_pppoe,
      IfElse(Test, set_setup_wan_pptp, If(Test, set_setup_wan_l2tp))))
set_html_main_setup_wan ==
  Main("setup_wan",
    NextLine \o Selection \o SetupWanType \o If(Test, set_setup_wan_optional_settings))

set_html_main_status_lan_dhcpd ==
  NextLine \o NextLine \o If(Test, NextLines(3) \o Link)
set_html_main_status_lan ==
  Main("status_lan", NextLines(3) \o If(Test, set_html_main_status_lan_dhcpd))

StatusDevice == NextLines(4)
StatusConfiguration ==
  NextLines(3) \o If(Test, NextLines(2))
  \o Finally(If(Test, Try("time")) \o NextLine, Free("time"))
StatusRunning == NextLine \o IfElse(Test, NextLine, NextLines(5))
set_html_main_status_system ==
  Main("status_system", StatusDevice \o StatusConfiguration \o StatusRunning)

set_status_wan_common == NextLines(3) \o NextLines(3) \o NextLine
set_status_wan_dhcp ==
  set_status_wan_common \o NextLine
  \o NextLine \o Inside("input", "") \o Inside("input", "input")
set_status_wan_static == set_status_wan_common
set_status_wan_pppoe  == set_status_wan_common
set_status_wan_pptp   == set_status_wan_common
set_status_wan_l2tp   == set_status_wan_common
StatusWanType ==
  IfElse(Test, set_status_wan_dhcp,
    IfElse(Test, set_status_wan_static,
      IfElse(Test, set_status_wan_pppoe,
        IfElse(Test, set_status_wan_pptp, If(Test, set_status_wan_l2tp)))))
set_html_main_status_wan == Main("status_wan", NextLine \o If(Test, StatusWanType))

set_html_main_view_dhcp_client_table ==
  Main("view_dhcp_client_table",
    NextLine \o Add("tr", "line", "") \o Add("th", "tr", "")
    \o Each([k \in 1..5 |-> Add("th", "tr", "th")]))

-----------------------------------------------------------------------------

(* The build_admin_..._response() functions: the frame of a page around    *)
(* its main division.                                                      *)
BuildPage(doc, main) ==
  WithLocale("locale",
    NewDoc(doc) \o SetHtml(doc) \o ResetDoc
    \o ezcfg_html_set_root \o ezcfg_html_set_head
    \o ezcfg_http_html_admin_set_html_common_head
    \o ezcfg_html_add_head_child("meta")
    \o ezcfg_html_set_body
    \o Add("container", "body", "") \o Add("form", "container", "")
    \o set_html_head \o main \o set_html_foot)

build_admin_cnc_default_result    == BuildPage("result", set_html_main_cnc_default_result)
build_admin_cnc_default_response  == BuildPage("html", set_html_main_cnc_default)
build_admin_cnc_latency_response  == BuildPage("html", set_html_main_cnc_latency)
build_admin_cnc_setup_response    == BuildPage("html", set_html_main_cnc_setup)
build_admin_management_authz_response ==
  BuildPage("html", set_html_main_management_authz)
build_admin_management_default_result ==
  BuildPage("result", set_html_main_management_default_result)
build_admin_management_default_response ==
  BuildPage("html", set_html_main_management_default)
build_admin_management_upgrade_response ==
  BuildPage("html", set_html_main_management_upgrade)
build_admin_setup_lan_response     == BuildPage("html", set_html_main_setup_lan)
build_admin_setup_system_response  == BuildPage("html", set_html_main_setup_system)
build_admin_setup_wan_response     == BuildPage("html", set_html_main_setup_wan)
build_admin_status_lan_response    == BuildPage("html", set_html_main_status_lan)
build_admin_status_system_response == BuildPage("html", set_html_main_status_system)
build_admin_status_wan_response    == BuildPage("html", set_html_main_status_wan)
build_admin_view_dhcp_client_table_response ==
  BuildPage("html", set_html_main_view_dhcp_client_table)

(* The style sheet.                                                        *)
Rules(selector, n) == Each([k \in 1..n |-> Rule(selector)])
FrameRules == Rules("body", 4) \o Rules("container", 1) \o Rules("head", 9)
MainRules  == Rules("main", 9) \o Rules("foot", 10)
PartRules  == Rules("menu", 5) \o Rules("content", 5)
MenuListRules == Rules("menu ul", 2) \o Rules("menu ul li a", 9)
                   \o Rules("menu ul li a:hover", 3)
SpanRules == Rules("menu a ul li span", 1) \o Rules("menu a:hover span", 10)
               \o Rules("menu a span", 1) \o Rules("p.warning", 1)

(* The five headers of an answer.                                          *)
set_http_html_common_header == Each([k \in 1..5 |-> May])
set_http_css_common_header  == Each([k \in 1..5 |-> May])

(* The text is written before http is reset: request_uri points into it.   *)
Respond(headers) ==
  May \o Alloc("msg") \o May \o Reset("request") \o May \o headers

build_admin_layout_css_response ==
  Finally(Alloc("css")
            \o FrameRules \o MainRules \o PartRules \o MenuListRules \o SpanRules
            \o Respond(set_http_css_common_header),
          Free("css") \o Free("msg"))

-----------------------------------------------------------------------------

(* The handlers of the sections, without what they do to nvram and to the  *)
(* services (see WorkerScript).                                            *)
(* Mutant: the result page is built, and then the page itself.             *)
DefaultGoesOn(result, response) == If(Test, result) \o response

(* A POST that asked for the defaults is answered by the result page only. *)
DefaultHandler(result, response) == If(Test, result \o Return) \o response

admin_cnc_default_handler ==
  DefaultHandler(build_admin_cnc_default_result, build_admin_cnc_default_response)
admin_management_default_handler ==
  DefaultHandler(build_admin_management_default_result,
                 build_admin_management_default_response)

adm_sections == {
  "status_system", "status_lan", "view_dhcp_client_table", "status_wan",
  "setup_system", "setup_lan", "setup_wan", "management_authz",
  "management_default", "management_upgrade", "cnc_setup", "cnc_default",
  "cnc_latency", "layout_css"}

adm_handlers(section) ==
  CASE section = "status_system"          -> build_admin_status_system_response
    [] section = "status_lan"             -> build_admin_status_lan_response
    [] section = "view_dhcp_client_table" -> build_admin_view_dhcp_client_table_response
    [] section = "status_wan"             -> build_admin_status_wan_response
    [] section = "setup_system"           -> build_admin_setup_system_response
    [] section = "setup_lan"              -> build_admin_setup_lan_response
    [] section = "setup_wan"              -> build_admin_setup_wan_response
    [] section = "management_authz"       -> build_admin_management_authz_response
    [] section = "management_default"     -> admin_management_default_handler
    [] section = "management_upgrade"     -> build_admin_management_upgrade_response
    [] section = "cnc_setup"              -> build_admin_cnc_setup_response
    [] section = "cnc_default"            -> admin_cnc_default_handler
    [] section = "cnc_latency"            -> build_admin_cnc_latency_response
    [] section = "layout_css"             -> build_admin_layout_css_response

(* admin->html is NULL after layout_css, which has answered by itself.     *)
generate_http_response ==
  Finally(Respond(set_http_html_common_header), Free("msg"))

(* The handler's Return ends the handler only.                             *)
CallHandler(s) == ToEnd(s, {"return"})

ezcfg_http_handle_admin_request(section) ==
  Finally(Alloc("admin") \o CallHandler(adm_handlers(section))
            \o (IF section = "layout_css" THEN <<>> ELSE generate_http_response),
          DeleteAdmin)

-----------------------------------------------------------------------------

(* The home page and the redirection to it.  They ignore a failure to make *)
(* the root element, and rc is still 0 when they leave because the         *)
(* document could not be built: they report success, with the request      *)
(* still in http.                                                          *)
IndexFrame ==
  NewDoc("html") \o ResetDoc
  \o Swallow(ezcfg_html_set_root, "page")
  \o ezcfg_html_set_head
IndexRespond == May \o Alloc("msg") \o May \o Reset("request") \o May

build_home_index_response ==
  Finally(Try("locale")
            \o Quietly(
                 IndexFrame \o MetaTags \o ezcfg_html_set_body
                 \o Add("p", "body", "")  \o Add("p_a", "p", "")
                 \o Add("p", "body", "p") \o Add("p_a", "p", "")
                 \o Add("p", "body", "p") \o Add("p_a", "p", ""),
                 IndexRespond \o Each([k \in 1..5 |-> Swallow(May, "header")])),
          Free("locale") \o Free("html") \o Free("msg"))
build_redirect_to_home_response ==
  Finally(Quietly(IndexFrame \o ezcfg_html_set_body, IndexRespond),
          Free("html") \o Free("msg"))

(* What a page that reports success may lack: the attributes of its        *)
(* elements, whose result nobody looks at, and what the functions above    *)
(* ignore.  The style sheet is complete.                                   *)
PageMayLack(r) ==
  CASE r = "layout_css" -> {}
    [] r = "setup_wan"  -> {"attribute", "element"}
    [] r = "index"      -> {"attribute", "header", "page"}
    [] r = "redirect"   -> {"page"}
    [] OTHER            -> {"attribute"}

PageRequests == adm_sections \union {"index", "redirect"}
PageOf(r) ==
  CASE r = "index"    -> build_home_index_response
    [] r = "redirect" -> build_redirect_to_home_response
    [] OTHER          -> ezcfg_http_handle_admin_request(r)
=============================================================================
