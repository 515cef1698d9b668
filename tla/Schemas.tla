------------------------------ MODULE Schemas ------------------------------
(***************************************************************************)
(* The migration of each service, as statements on a database's catalog: a *)
(* table with the enum types and unique constraints its CREATE makes, or a *)
(* DROP.  Columns, checks and indexes that are not unique are left out.    *)
(***************************************************************************)
EXTENDS Sequences, FiniteSets

Services == {"warehouse", "inventory", "shipment", "identity"}

(* An object of the catalog; a constraint belongs to its table, and a      *)
(* table refers to others.                                                 *)
Object(name, table, refs) == [name |-> name, of |-> table, refs |-> refs]
Names(c) == {o.name : o \in c}

Statement(makes, needs, drops, ifExists) ==
  [makes |-> makes, needs |-> needs, drops |-> drops, ifExists |-> ifExists]

(* op.create_table creates its enum types too, and fails when one exists.  *)
Create(table, refs, types, uniques) ==
  Statement({Object(table, table, refs)} \cup {Object(y, y, {}) : y \in types}
              \cup {Object(u, table, {}) : u \in uniques},
            refs, {}, FALSE)
CreateSequence(s) == Statement({Object(s, s, {})}, {}, {}, FALSE)

(* DROP TABLE leaves the enum types; they are dropped with checkfirst.     *)
Drop(table) == Statement({}, {}, {table}, FALSE)
DropIfExists(name) == Statement({}, {}, {name}, TRUE)

Dropped(s, c) == {o \in c : o.name \in s.drops \/ o.of \in s.drops}

(* Postgres refuses a name twice, a reference to no table, to drop what is *)
(* not there, or what is referred to.                                      *)
Runs(s, c) ==
  /\ s.needs \subseteq Names(c)
  /\ Names(s.makes) \cap Names(c) = {}
  /\ s.ifExists \/ s.drops \subseteq Names(c)
  /\ \A o \in c \ Dropped(s, c) : o.refs \cap s.drops = {}
-----------------------------------------------------------------------------
PlatformTables == <<
  Create("idempotency_keys", {}, {}, {"uq_idempotency_keys_owner_key"}),
  Create("outbox_events", {}, {}, {"uq_outbox_events_event_id"}),
  Create("processed_events", {}, {}, {})>>

WarehouseRow == <<
  Create("warehouses", {}, {"warehouse_type", "warehouse_status"}, {"ix_warehouses_code"})>>
WarehouseParts == <<
  Create("warehouse_operating_hours", {"warehouses"}, {}, {"uq_warehouse_operating_day"}),
  Create("warehouse_zones", {"warehouses"}, {"zone_type"}, {"uq_warehouse_zone_code"})>>

InventoryCatalogue == <<
  Create("skus", {}, {}, {"ix_skus_code"}),
  Create("warehouse_refs", {}, {}, {}),
  Create("inventory_items", {"skus"}, {}, {"uq_inventory_warehouse_sku"})>>
InventoryLedger == <<
  Create("inventory_reservations", {"inventory_items", "skus"}, {"reservation_status"},
         {"uq_reservation_shipment_sku"}),
  Create("stock_movements", {"inventory_items", "skus"}, {"stock_movement_type"}, {})>>

ShipmentAddresses == <<
  CreateSequence("shipment_reference_seq"),
  Create("addresses", {}, {}, {})>>
ShipmentRow == <<
  Create("warehouse_refs", {}, {}, {}),
  Create("shipments", {"addresses"}, {"shipment_status", "service_level", "shipment_priority"},
         {"ix_shipments_reference_no"})>>
ShipmentParts == <<
  Create("packages", {"shipments"}, {"package_status"},
         {"uq_package_sequence", "ix_packages_barcode"}),
  Create("shipment_items", {"shipments"}, {}, {"uq_shipment_item_sku"}),
  Create("shipment_status_history", {"shipments"}, {}, {})>>

IdentityTables == <<
  Create("users", {}, {"user_role", "user_status"}, {"ix_users_email", "uq_users_courier_id"}),
  Create("refresh_tokens", {"users"}, {}, {"uq_refresh_tokens_token_hash"}),
  Create("user_warehouse_assignments", {"users"}, {}, {"uq_user_warehouse_assignment"})>>

WarehouseUpgrade == PlatformTables \o WarehouseRow \o WarehouseParts
InventoryUpgrade == PlatformTables \o InventoryCatalogue \o InventoryLedger
ShipmentUpgrade == ShipmentAddresses \o PlatformTables \o ShipmentRow \o ShipmentParts
IdentityUpgrade == PlatformTables \o IdentityTables

Upgrade(s) ==
  CASE s = "warehouse" -> WarehouseUpgrade
    [] s = "inventory" -> InventoryUpgrade
    [] s = "shipment"  -> ShipmentUpgrade
    [] s = "identity"  -> IdentityUpgrade
-----------------------------------------------------------------------------
PlatformDrops == <<Drop("processed_events"), Drop("outbox_events"), Drop("idempotency_keys")>>

(* Mutant of WarehouseDrops: as autogenerated, without the enum types.     *)
WarehouseTableDrops ==
  <<Drop("warehouse_zones"), Drop("warehouse_operating_hours"), Drop("warehouses")>>
  \o PlatformDrops

WarehouseDrops ==
  <<Drop("warehouse_zones"), Drop("warehouse_operating_hours"), Drop("warehouses")>>
  \o PlatformDrops
  \o <<DropIfExists("zone_type"), DropIfExists("warehouse_status"), DropIfExists("warehouse_type")>>

InventoryDrops ==
  <<Drop("stock_movements"), Drop("inventory_reservations"), Drop("inventory_items"),
    Drop("warehouse_refs"), Drop("skus")>>
  \o PlatformDrops
  \o <<DropIfExists("stock_movement_type"), DropIfExists("reservation_status")>>

ShipmentDrops ==
  <<Drop("shipment_status_history"), Drop("shipment_items"), Drop("packages"),
    Drop("shipments"), Drop("warehouse_refs")>>
  \o PlatformDrops
  \o <<Drop("addresses"), DropIfExists("shipment_reference_seq"),
       DropIfExists("package_status"), DropIfExists("shipment_priority"),
       DropIfExists("service_level"), DropIfExists("shipment_status")>>

IdentityDrops ==
  <<Drop("user_warehouse_assignments"), Drop("refresh_tokens"), Drop("users")>>
  \o PlatformDrops
  \o <<DropIfExists("user_status"), DropIfExists("user_role")>>

Downgrade(s) ==
  CASE s = "warehouse" -> WarehouseDrops
    [] s = "inventory" -> InventoryDrops
    [] s = "shipment"  -> ShipmentDrops
    [] s = "identity"  -> IdentityDrops
-----------------------------------------------------------------------------
(* What the code asks the database for by name: ON CONFLICT, the sequence, *)
(* and the constraints whose violation has a message of its own.           *)
ReliedOn(s) ==
  {"uq_idempotency_keys_owner_key"} \cup
  CASE s = "warehouse" -> {"ix_warehouses_code", "uq_warehouse_zone_code", "uq_warehouse_operating_day"}
    [] s = "inventory" -> {"ix_skus_code", "uq_inventory_warehouse_sku", "uq_reservation_shipment_sku"}
    [] s = "shipment"  -> {"shipment_reference_seq", "ix_shipments_reference_no",
                           "uq_shipment_item_sku", "uq_package_sequence", "ix_packages_barcode"}
    [] s = "identity"  -> {"ix_users_email", "uq_user_warehouse_assignment", "uq_users_courier_id"}
=============================================================================
